---- MODULE Spec2Model ----
(***************************************************************************)
(* State-machine model of the DEVI intraday trading engine:                *)
(*   core/orchestration/pipeline.py      TradingPipeline.process_bar       *)
(*   core/execution/mt5_executor.py      MT5Executor.execute_order         *)
(*   core/orchestration/trade_journal.py TradeJournal                      *)
(*                                                                         *)
(* Units.  Prices are integers in units of 1/PriceScale (0.00001); one     *)
(* "point" of the pipeline (0.0001) is `point` price units.  Volumes       *)
(* are integers in lot steps (1/VolumeScale lot).  Equity is in whole      *)
(* account currency; risk amounts are in 1/MoneyScale of it.  Fractions    *)
(* of the configuration (per_trade_pct ...) are in 1/MoneyScale as well.   *)
(* Time is counted in bars of SecondsPerBar seconds since a UTC midnight.  *)
(*                                                                         *)
(* The executor runs in LIVE mode with real orders enabled, one symbol,    *)
(* default configuration, exits from the legacy planner path.  Bar times   *)
(* increase from call to call, as in the live loop.                        *)
(***************************************************************************)
EXTENDS Integers, Sequences, FiniteSets, TLC

\* ------------------------------------------------------------------ bounds
MaxBars == 8
MaxGuardBars == 4
MaxSizerBars == 2
MaxJournalBars == 4
MaxDay == 1
MaxStructures == 2
MaxTickets == 2
MaxExitBars == 2
MaxDetBars == 4
MaxRunBars == 5
MaxOnbCalls == 3

\* --------------------------------------------------------- scales and units
PriceScale == 100000
VolumeScale == 100
MoneyScale == 10000
SecondsPerBar == 900
SecondsPerDay == 86400
BarsPerDay == SecondsPerDay \div SecondsPerBar

\* Python None for optional numbers (equities, times, dates, tickets).
None == -1

\* ------------------------------------------------- configuration defaults
default_equity == 10000
per_trade_pct == 2500
per_symbol_open_risk_cap_pct == 7500
daily_soft_stop_pct == -1
daily_hard_stop_pct == -2
max_consecutive_send_failures == 3
failure_cooldown_seconds == 1800
max_positions_per_symbol == 2
default_max_full_sl_hits == 2
min_pause_bars == 2
max_positions_per_direction == 2

\* Conflict resolver (confidence in hundredths).
conflict_lookback_bars == 4
conflict_threshold_bump == 15
min_composite == 45

\* Higher-timeframe bias (scores in hundredths, multipliers as fractions).
htf_bias_bonus == 5
htf_bias_penalty == 10
htf_override_score == 82
neutral_zone_atr_mult_num == 1
neutral_zone_atr_mult_den == 2
hard_block_clear_trend_mult_num == 3
hard_block_clear_trend_mult_den == 2
ftmo_max_daily_loss_pct == -5
ftmo_max_total_loss_pct == -10
point == 10
contract_size == 100000
volume_min == 1
volume_max == 10000
sl_hard_floor_points == 0
min_rr_num == 3
min_rr_den == 2
max_requotes == 1
sl_buffer_points == 3
tick_spread_multiplier == 3
tick_spread_buffer_points == 20
default_symbol_floor_points == 50
enable_adaptive_retry_on_10016 == TRUE

\* MT5 trade return codes used by the send loop; REJECT stands for every
\* answer the loop does not retry.
TRADE_RETCODE_DONE == 10009
TRADE_RETCODE_REQUOTE == 10004
TRADE_RETCODE_INVALID_STOPS == 10016
TRADE_RETCODE_REJECT == 10006

\* ------------------------------------------------------------------ helpers
Max(a, b) == IF a >= b THEN a ELSE b
Min(a, b) == IF a <= b THEN a ELSE b
Abs(a) == IF a >= 0 THEN a ELSE -a

\* timestamp.date() of a bar time.
Date(t) == t \div BarsPerDay

\* ------------------------------------------------------- decision generation
\* Latest bar close: entry price of every decision of the bar.
Close == 110000
BasePrice == Close

\* Legacy exits of one structure, then the safety clamp; <<>> when risk <= 0.
LegacyDecision(s, entry) ==
    LET range == s.high - s.low
        sl0 == IF s.bull THEN s.low - range \div 10 ELSE s.high + range \div 10
        tp0 == IF s.bull THEN entry + 2 * range ELSE entry - 2 * range
        epsilon == Max(1, range \div 100)
        sl == IF s.bull
              THEN (IF sl0 >= entry THEN entry - epsilon ELSE sl0)
              ELSE (IF sl0 <= entry THEN entry + epsilon ELSE sl0)
        tp == IF s.bull
              THEN (IF tp0 <= entry THEN entry + epsilon ELSE tp0)
              ELSE (IF tp0 >= entry THEN entry - epsilon ELSE tp0)
        risk == IF s.bull THEN entry - sl ELSE sl - entry
    IN  IF risk <= 0 THEN <<>>
        ELSE << [type |-> IF s.bull THEN "BUY" ELSE "SELL",
                 entry |-> entry, sl |-> sl, tp |-> tp,
                 conf |-> s.quality, sid |-> s.id, volume |-> 10] >>

RECURSIVE process_decision_generation(_, _)
process_decision_generation(structures, entry) ==
    IF structures = <<>> THEN <<>>
    ELSE LegacyDecision(Head(structures), entry)
         \o process_decision_generation(Tail(structures), entry)

\* Stable insertion of d into a sequence sorted by confidence, descending.
RECURSIVE InsertByConfidence(_, _)
InsertByConfidence(d, sorted) ==
    IF sorted = <<>> THEN <<d>>
    ELSE IF Head(sorted).conf >= d.conf
         THEN <<Head(sorted)>> \o InsertByConfidence(d, Tail(sorted))
         ELSE <<d>> \o sorted

RECURSIVE SortByConfidence(_)
SortByConfidence(ds) ==
    IF ds = <<>> THEN <<>>
    ELSE LET n == Len(ds)
         IN  InsertByConfidence(ds[n], SortByConfidence(SubSeq(ds, 1, n - 1)))

\* Per-bar dedup: all decisions of a call share (symbol, timestamp), so the
\* first decision in confidence order is kept and every other one dropped.
DedupKeepAll(ds) == ds

Dedup(ds) ==
    IF ds = <<>> THEN <<>> ELSE <<Head(SortByConfidence(ds))>>

\* --------------------------------------------------------------- risk sizer
\* Monetary risk of `volume` lot steps over a stop of `stop` price units:
\* stop_distance_points * (contract_size * point) * volume_rounded.
\* point_value_per_lot, per price unit of stop and per lot step of volume.
point_value_per_step == (contract_size * MoneyScale) \div (PriceScale * VolumeScale)

TradeRisk(stop, volume) == stop * point_value_per_step * volume

SnapStepsUp(num, den) == (num + den - 1) \div den

\* int(volume_raw / lot_step): the raw volume num/den lots, in whole steps.
SnapSteps(num, den) == num \div den

\* Sizing of one decision.  cfg holds per_trade_pct and the per-symbol cap.
SizeDecision(d, equity, cfg, open_risk_before) ==
    LET stop == Abs(d.entry - d.sl)
        risk_budget == Max(equity * cfg.per_trade_pct, 0)
        cap_budget == equity * cfg.cap_pct
        steps == Max(SnapSteps(risk_budget, Max(stop, 1) * point_value_per_step), 0)
        volume == Min(steps, volume_max)
        new_trade_risk == TradeRisk(stop, volume)
        res(o) == [outcome |-> o, volume |-> volume, steps |-> steps, stop |-> stop,
                   new_trade_risk |-> new_trade_risk,
                   open_risk_before |-> open_risk_before,
                   risk_budget |-> risk_budget, cap_budget |-> cap_budget]
    IN  IF stop <= 0 THEN res("risk_too_small")
        ELSE IF sl_hard_floor_points > 0 /\ stop < sl_hard_floor_points * point
             THEN res("setup_rejected_tight_sl")
        ELSE IF steps < volume_min THEN res("risk_too_small")
        ELSE IF open_risk_before + new_trade_risk > cap_budget THEN res("risk_cap_hit")
        ELSE res("execution_sized")

\* ----------------------------------------------------------------- executor
\* Tick-based stop-level pre-check (LIVE only): SL and TP must be at least
\* min_required points away from ask (BUY) or bid (SELL).
validate_broker_stops_before_order(o, info) ==
    LET spread == info.ask - info.bid
        min_required == Max(default_symbol_floor_points * point,
                            spread * tick_spread_multiplier
                            + tick_spread_buffer_points * point)
        ref == IF o.type = "BUY" THEN info.ask ELSE info.bid
        sl_distance == IF o.type = "BUY" THEN ref - o.sl ELSE o.sl - ref
        tp_distance == IF o.type = "BUY" THEN o.tp - ref ELSE ref - o.tp
    IN  sl_distance >= min_required /\ tp_distance >= min_required

\* "ok", "invalid" (local validation failure, precheck_block = False) or
\* "precheck" (broker stop pre-check failure, precheck_block = True).
validate_order(o, info) ==
    LET risk == IF o.type = "BUY" THEN o.entry - o.sl ELSE o.sl - o.entry
        reward == IF o.type = "BUY" THEN o.tp - o.entry ELSE o.entry - o.tp
    IN  IF o.type \notin {"BUY", "SELL"} THEN "invalid"
        ELSE IF o.volume <= 0 THEN "invalid"
        ELSE IF o.entry <= 0 \/ o.sl <= 0 \/ o.tp <= 0 THEN "invalid"
        ELSE IF risk <= 0 \/ reward <= 0 THEN "invalid"
        ELSE IF reward * min_rr_den < risk * min_rr_num THEN "invalid"
        ELSE IF ~validate_broker_stops_before_order(o, info) THEN "precheck"
        ELSE "ok"

\* Minimum-distance adjustment of SL/TP before the send loop.  Returns the
\* order to send, or error = TRUE when the adjusted order is refused locally.
AdjustBeforeSend(o, info) ==
    LET spread_points == Abs(info.ask - info.bid) \div point
        min_sl_pts == Max(Max(info.stop_level, spread_points + sl_buffer_points),
                          sl_hard_floor_points)
        need_sl == Abs(o.entry - o.sl) \div point < min_sl_pts
        need_tp == Abs(o.tp - o.entry) \div point < min_sl_pts
        off == min_sl_pts * point
        sl == IF need_sl THEN (IF o.type = "BUY" THEN o.entry - off ELSE o.entry + off)
              ELSE o.sl
        tp == IF need_tp THEN (IF o.type = "BUY" THEN o.entry + off ELSE o.entry - off)
              ELSE o.tp
        old_dist == Abs(o.entry - o.sl)
        new_dist == Abs(o.entry - sl)
        adjusted == need_sl \/ need_tp
        \* volume * (old/new), then snapped down to the volume step
        snapped == IF adjusted /\ old_dist > 0 /\ new_dist > 0
                   THEN (o.volume * old_dist) \div new_dist
                   ELSE o.volume
        risk == IF o.type = "BUY" THEN o.entry - sl ELSE sl - o.entry
        reward == IF o.type = "BUY" THEN tp - o.entry ELSE o.entry - tp
        bad == \/ adjusted /\ new_dist <= 0
               \/ adjusted /\ (risk <= 0 \/ reward <= 0)
               \/ adjusted /\ reward * min_rr_den < risk * min_rr_num
               \/ snapped < volume_min
    IN  [error |-> bad, adjusted |-> adjusted,
         request |-> [type |-> o.type, entry |-> o.entry, sl |-> sl, tp |-> tp,
                      volume |-> snapped]]

\* Adaptive retry after 10016: SL/TP re-anchored to ask (BUY) or bid (SELL)
\* at the retry minimum distance, volume rescaled by old/new SL distance,
\* clamped to [volume_min, volume_max] and rounded to the nearest step.
RoundHalfEven(num, den) ==
    LET q == num \div den
        r == num % den
    IN  IF 2 * r < den THEN q
        ELSE IF 2 * r > den THEN q + 1
        ELSE IF q % 2 = 0 THEN q ELSE q + 1

retry_tick_spread_multiplier == 4
retry_tick_spread_buffer_points == 30
retry_safety_margin_points == 20

RetryAdjust(req, volume, info) ==
    LET spread == info.ask - info.bid
        min_required == Max(default_symbol_floor_points * point,
                            spread * retry_tick_spread_multiplier
                            + retry_tick_spread_buffer_points * point)
                        + retry_safety_margin_points * point
        new_sl == IF req.type = "BUY" THEN info.ask - min_required
                  ELSE info.bid + min_required
        new_tp == IF req.type = "BUY" THEN info.ask + min_required
                  ELSE info.bid - min_required
        old_dist == Abs(req.sl - req.entry)
        new_dist == Abs(new_sl - req.entry)
        new_volume ==
            IF new_dist > 0 /\ old_dist > 0
            THEN LET lo == volume_min * new_dist
                     hi == volume_max * new_dist
                     v == Max(lo, Min(volume * old_dist, hi))
                 IN  RoundHalfEven(v, new_dist)
            ELSE req.volume
    IN  [req EXCEPT !.sl = new_sl, !.tp = new_tp, !.volume = new_volume]

max_attempts == Max(1, max_requotes + 1)

\* The send loop: one broker submission per attempt; script[i] is the
\* retcode the broker answers to the i-th submission.
RECURSIVE SendLoop(_, _, _, _, _)
SendLoop(req, volume, info, script, attempt) ==
    LET retcode == script[attempt]
    IN  IF retcode = TRADE_RETCODE_DONE
        THEN [success |-> TRUE, submits |-> attempt, retcode |-> retcode, request |-> req]
        ELSE IF retcode = TRADE_RETCODE_REQUOTE /\ attempt < max_attempts
        THEN SendLoop(req, volume, info, script, attempt + 1)
        ELSE IF /\ retcode = TRADE_RETCODE_INVALID_STOPS
                /\ attempt < max_attempts
                /\ enable_adaptive_retry_on_10016
        THEN SendLoop(RetryAdjust(req, volume, info), volume, info, script, attempt + 1)
        ELSE [success |-> FALSE, submits |-> attempt, retcode |-> retcode, request |-> req]

\* Real order path (LIVE with enable_real_mt5_orders).
SendResult(adj, info, script) ==
    IF adj.error
    THEN [success |-> FALSE, submits |-> 0, retcode |-> None, request |-> adj.request]
    ELSE SendLoop(adj.request, adj.request.volume, info, script, 1)

send_order_mt5(o, info, script) == SendResult(AdjustBeforeSend(o, info), info, script)

\* ExecutionResult of execute_order: success, precheck_block, and how many
\* order_send submissions reached the broker.  v is the verdict of
\* validate_order, sent the result of the real order path.
ExecutionResult(v, sent) ==
    IF v # "ok"
    THEN [success |-> FALSE, precheck_block |-> (v = "precheck"),
          submits |-> 0, retcode |-> None, error |-> v]
    ELSE [success |-> sent.success, precheck_block |-> FALSE,
          submits |-> sent.submits, retcode |-> sent.retcode,
          error |-> IF sent.success THEN "none"
                    ELSE IF sent.submits = 0 THEN "adjust" ELSE "broker"]

execute_order(o, info, script) ==
    ExecutionResult(validate_order(o, info), send_order_mt5(o, info, script))

\* ------------------------------------------- invalid-stops handling, configured
\* Executor configuration: max_requotes and the invalid_stops_handling flags.
ExecutorConfig(requotes, adaptive, naked, close) ==
    [max_requotes |-> requotes,
     enable_adaptive_retry_on_10016 |-> adaptive,
     enable_naked_entry_fallback_on_10016 |-> naked,
     close_on_modify_failure |-> close]

MaxAttemptsPlusOne(c) == Max(1, c.max_requotes + 2)

MaxAttempts(c) == Max(1, c.max_requotes + 1)

\* The send loop of an executor configured as c.  answers[i] is the retcode
\* of the i-th order_send, tick the quote fetched by a retry, volume the
\* volume the loop was entered with, retries the adaptive retries made.
RECURSIVE SendAttempts(_, _, _, _, _, _, _)
SendAttempts(c, req, volume, tick, answers, attempt, retries) ==
    LET retcode == answers[attempt]
    IN  IF retcode = TRADE_RETCODE_DONE
        THEN [success |-> TRUE, submits |-> attempt, retcode |-> retcode,
              request |-> req, retries |-> retries]
        ELSE IF retcode = TRADE_RETCODE_REQUOTE /\ attempt < MaxAttempts(c)
        THEN SendAttempts(c, req, volume, tick, answers, attempt + 1, retries)
        ELSE IF /\ retcode = TRADE_RETCODE_INVALID_STOPS
                /\ attempt < MaxAttempts(c)
                /\ c.enable_adaptive_retry_on_10016
        THEN SendAttempts(c, RetryAdjust(req, volume, tick), volume, tick, answers,
                          attempt + 1, retries + 1)
        ELSE [success |-> FALSE, submits |-> attempt, retcode |-> retcode,
              request |-> req, retries |-> retries]

\* Positions of the symbol at the broker: ticket, type, magic (ours or not),
\* volume, and the stops they carry ("own", "request" or "none").
OpenedPosition(req) ==
    [ticket |-> "new", type |-> req.type, ours |-> TRUE, volume |-> req.volume,
     stops |-> "none"]

\* The match score of the fallback's position lookup.
MatchScore(p, req) ==
    (IF p.type = req.type THEN 2 ELSE 0) + (IF p.ours THEN 2 ELSE 0)
        + (IF p.volume = req.volume THEN 1 ELSE 0)

\* The first position with the highest score.
BestMatch(positions, req) ==
    LET best == CHOOSE i \in 1..Len(positions) :
                    /\ \A j \in 1..Len(positions) :
                          MatchScore(positions[j], req) <= MatchScore(positions[i], req)
                    /\ \A j \in 1..(i - 1) :
                          MatchScore(positions[j], req) < MatchScore(positions[i], req)
    IN  positions[best]

\* What a call left at the broker and what it returned.
\*   entry_sends : order_send calls that submitted the entry order
\*   open        : positions of the symbol open after the call
SendOutcome(sent, success, order_id, naked, modify, close, open) ==
    [success |-> success, order_id |-> order_id, submits |-> sent.submits,
     retries |-> sent.retries, retcode |-> sent.retcode, request |-> sent.request,
     entry_sends |-> sent.submits + (IF naked = "none" THEN 0 ELSE 1),
     naked |-> naked, modify |-> modify, close |-> close, open |-> open]

NoModify == [sent |-> FALSE, position |-> "none", sl |-> 0, tp |-> 0, done |-> FALSE]
NoClose == [sent |-> FALSE, position |-> "none", done |-> FALSE]

\* The naked-entry fallback after the loop ended on 10016: the order without
\* SL/TP, the position lookup (listed: what positions_get returns), the
\* SL/TP modify and the optional close.  before: positions open before the
\* call; answers: retcodes of the naked order, the modify and the close.
NakedFallback(c, sent, answers, before, listed) ==
    LET req == sent.request
        open1 == {before[i] : i \in 1..Len(before)} \cup {OpenedPosition(req)}
        best == BestMatch(listed, req)
        modify == [sent |-> TRUE, position |-> best.ticket, sl |-> req.sl,
                   tp |-> req.tp, done |-> answers.modify = TRADE_RETCODE_DONE]
        open2 == {IF p.ticket = best.ticket THEN [p EXCEPT !.stops = "request"] ELSE p :
                     p \in open1}
        close == [sent |-> TRUE, position |-> best.ticket,
                  done |-> answers.close = TRADE_RETCODE_DONE]
        open3 == {p \in open1 : p.ticket # best.ticket}
    IN  IF answers.naked # TRADE_RETCODE_DONE
        THEN SendOutcome(sent, FALSE, "none", "rejected", NoModify, NoClose,
                         {before[i] : i \in 1..Len(before)})
        ELSE IF listed = <<>>
        THEN SendOutcome(sent, TRUE, "new", "done", NoModify, NoClose, open1)
        ELSE IF modify.done
        THEN SendOutcome(sent, TRUE, best.ticket, "done", modify, NoClose, open2)
        ELSE IF c.close_on_modify_failure
        THEN SendOutcome(sent, TRUE, "new", "done", modify, close,
                         IF close.done THEN open3 ELSE open1)
        ELSE SendOutcome(sent, TRUE, "new", "done", modify, NoClose, open1)

\* _send_order_mt5 of an executor configured as c.
send_order_live(c, o, info, tick, answers, before, listed) ==
    LET adj == AdjustBeforeSend(o, info)
        sent == SendAttempts(c, adj.request, adj.request.volume, tick,
                             answers.loop, 1, 0)
        base == {before[i] : i \in 1..Len(before)}
    IN  IF adj.error
        THEN SendOutcome([success |-> FALSE, submits |-> 0, retcode |-> None,
                          request |-> adj.request, retries |-> 0],
                         FALSE, "none", "none", NoModify, NoClose, base)
        ELSE IF sent.success
        THEN SendOutcome(sent, TRUE, "new", "none", NoModify, NoClose,
                         base \cup {[OpenedPosition(sent.request)
                                        EXCEPT !.stops = "request"]})
        ELSE IF /\ sent.retcode = TRADE_RETCODE_INVALID_STOPS
                /\ c.enable_naked_entry_fallback_on_10016
        THEN NakedFallback(c, sent, answers, before, listed)
        ELSE SendOutcome(sent, FALSE, "none", "none", NoModify, NoClose, base)

\* ----------------------------------------------------- structure exit planner
\* StructureExitPlanner works in Decimal prices.  Planner prices are integers
\* in hundredths of a broker point, so that 0.15 x ATR and 1.5 x risk are exact
\* and rounding to the point quantum is a real operation.
PointSub == 100
pip_points == 10
sl_atr_buffer_pct == 15
tp_extension_atr_pct == 100
min_buffer_pips == 1
max_buffer_pips == 10
min_rr_gate_num == 3
min_rr_gate_den == 2

\* A nearest zone of one structure type handed to the planner: edges low/high
\* (lower_edge/upper_edge, gap_low/gap_high, zone_low/zone_high).
NoZone == [present |-> FALSE, low |-> 0, high |-> 0]
Zone(low, high) == [present |-> TRUE, low |-> low, high |-> high]

\* plan() returning None.
NoPlan == [ok |-> FALSE, sl |-> 0, tp |-> 0, method |-> "none",
           reward |-> 0, risk |-> 0]

\* _round_to_point: quantize(price / point) with ROUND_HALF_UP, prices > 0.
round_to_point(price) == ((price + PointSub \div 2) \div PointSub) * PointSub

\* ensure_distance of _apply_broker_clamps.
ensure_distance(p, away_from, minimum, direction) ==
    LET d == Abs(p - away_from)
    IN  IF d >= minimum THEN p ELSE p + (minimum - d) * direction

\* _apply_broker_clamps: rounding, minimum and maximum stop distance.  broker
\* holds min_stop_distance and max_stop_distance (None: no maximum).
apply_broker_clamps(entry, sl, tp, side, broker) ==
    LET sl1 == round_to_point(sl)
        tp1 == round_to_point(tp)
        sl2 == round_to_point(ensure_distance(sl1, entry, broker.min_stop,
                                              IF side = "BUY" THEN -1 ELSE 1))
        tp2 == round_to_point(ensure_distance(tp1, entry, broker.min_stop,
                                              IF side = "BUY" THEN 1 ELSE -1))
        sl3 == IF Abs(entry - sl2) > broker.max_stop
               THEN (IF side = "BUY" THEN entry - broker.max_stop
                     ELSE entry + broker.max_stop)
               ELSE sl2
        tp3 == IF Abs(tp2 - entry) > broker.max_stop
               THEN (IF side = "BUY" THEN entry + broker.max_stop
                     ELSE entry - broker.max_stop)
               ELSE tp2
        sl4 == round_to_point(sl3)
        tp4 == round_to_point(tp3)
    IN  IF broker.max_stop = None THEN [ok |-> TRUE, sl |-> sl2, tp |-> tp2]
        ELSE IF side = "BUY" /\ ~(sl4 < entry /\ entry < tp4)
        THEN [ok |-> FALSE, sl |-> 0, tp |-> 0]
        ELSE IF side = "SELL" /\ ~(tp4 < entry /\ entry < sl4)
        THEN [ok |-> FALSE, sl |-> 0, tp |-> 0]
        ELSE [ok |-> TRUE, sl |-> sl4, tp |-> tp4]

\* _compute_sl_buffer: clamp(min_buffer_pips, max_buffer_pips, 0.15 x atr);
\* atr is given in broker points.
compute_sl_buffer(atr) ==
    Max(min_buffer_pips * pip_points * PointSub,
        Min(max_buffer_pips * pip_points * PointSub, sl_atr_buffer_pct * atr))

\* tp_extension_atr x atr.
tp_extension(atr) == tp_extension_atr_pct * atr

\* A plan before the RR gate, from requested SL/TP.
Planned(method, entry, sl, tp, side, broker) ==
    LET c == apply_broker_clamps(entry, sl, tp, side, broker)
    IN  IF c.ok
        THEN [ok |-> TRUE, sl |-> c.sl, tp |-> c.tp, method |-> method,
              reward |-> 0, risk |-> 0]
        ELSE NoPlan

\* _select_opposing_target: an edge of the nearest zone of the given type.
select_opposing_target(side, zone) ==
    IF ~zone.present THEN None
    ELSE IF side = "BUY" THEN zone.low ELSE zone.high

\* _plan_from_structure for order_block and fair_value_gap.
plan_from_structure(method, side, entry, atr, structures, broker) ==
    LET nearest == structures[method]
        sl_buf == compute_sl_buffer(atr)
        ob_tp == select_opposing_target(side, structures["order_block"])
        fvg_tp == select_opposing_target(side, structures["fair_value_gap"])
        ext == IF side = "BUY" THEN entry + tp_extension(atr)
               ELSE entry - tp_extension(atr)
        sl == IF side = "BUY" THEN nearest.low - sl_buf ELSE nearest.high + sl_buf
        tp0 == IF method = "order_block"
               THEN (IF ob_tp # None THEN ob_tp
                     ELSE IF fvg_tp # None THEN fvg_tp ELSE ext)
               ELSE (IF side = "BUY" THEN nearest.high ELSE nearest.low)
        tp == IF side = "BUY" /\ tp0 <= entry THEN ext
              ELSE IF side = "SELL" /\ tp0 >= entry THEN ext
              ELSE tp0
    IN  IF ~nearest.present THEN NoPlan
        ELSE Planned(method, entry, sl, tp, side, broker)

\* _plan_from_atr.
plan_from_atr(side, entry, atr, broker) ==
    LET sl_buf == compute_sl_buffer(atr)
    IN  IF side = "BUY"
        THEN Planned("atr", entry, entry - sl_buf, entry + tp_extension(atr),
                     side, broker)
        ELSE Planned("atr", entry, entry + sl_buf, entry - tp_extension(atr),
                     side, broker)

\* _plan_from_rejection: the zone must not lie beyond the entry.
plan_from_rejection(side, entry, atr, structures, broker) ==
    LET nearest == structures["rejection"]
        sl_buf == compute_sl_buffer(atr)
    IN  IF ~nearest.present THEN NoPlan
        ELSE IF side = "BUY" /\ entry < nearest.low THEN NoPlan
        ELSE IF side = "SELL" /\ entry > nearest.high THEN NoPlan
        ELSE IF side = "BUY"
        THEN Planned("rejection", entry, nearest.low - sl_buf,
                     entry + tp_extension(atr), side, broker)
        ELSE Planned("rejection", entry, nearest.high + sl_buf,
                     entry - tp_extension(atr), side, broker)

\* rr >= min_rr_gate for rr = reward / risk, risk > 0.
meets_rr_gate(reward, risk) == reward * min_rr_gate_den >= risk * min_rr_gate_num

\* Risk and reward of SL/TP around entry.
RiskOf(side, entry, sl) == IF side = "BUY" THEN entry - sl ELSE sl - entry
RewardOf(side, entry, tp) == IF side = "BUY" THEN tp - entry ELSE entry - tp

\* TP extension of the RR gate: reward = min_rr x risk with the SL kept, broker
\* clamps re-applied, RR recomputed; None unless the gate is then met.
ExtendTpUnchecked(planned, side, entry, broker) ==
    LET risk == RiskOf(side, entry, planned.sl)
        needed_reward == (min_rr_gate_num * risk) \div min_rr_gate_den
        new_tp == IF side = "BUY" THEN entry + needed_reward
                  ELSE entry - needed_reward
        c == apply_broker_clamps(entry, planned.sl, new_tp, side, broker)
        risk2 == RiskOf(side, entry, c.sl)
        reward2 == RewardOf(side, entry, c.tp)
    IN  IF c.ok /\ risk2 > 0 /\ reward2 > 0
        THEN [planned EXCEPT !.sl = c.sl, !.tp = c.tp,
                             !.reward = reward2, !.risk = risk2]
        ELSE NoPlan

ExtendTp(planned, side, entry, broker) ==
    LET risk == RiskOf(side, entry, planned.sl)
        needed_reward == (min_rr_gate_num * risk) \div min_rr_gate_den
        new_tp == IF side = "BUY" THEN entry + needed_reward
                  ELSE entry - needed_reward
        c == apply_broker_clamps(entry, planned.sl, new_tp, side, broker)
        risk2 == RiskOf(side, entry, c.sl)
        reward2 == RewardOf(side, entry, c.tp)
    IN  IF c.ok /\ risk2 > 0 /\ reward2 > 0 /\ meets_rr_gate(reward2, risk2)
        THEN [planned EXCEPT !.sl = c.sl, !.tp = c.tp,
                             !.reward = reward2, !.risk = risk2]
        ELSE NoPlan

\* _apply_rr_gate_and_return.  pcfg holds exit_priority and
\* atr_fallback_enabled.
apply_rr_gate_and_return(planned, side, entry, broker, pcfg) ==
    LET risk == RiskOf(side, entry, planned.sl)
        reward == RewardOf(side, entry, planned.tp)
    IN  IF risk <= 0 \/ reward <= 0 THEN NoPlan
        ELSE IF meets_rr_gate(reward, risk)
        THEN [planned EXCEPT !.reward = reward, !.risk = risk]
        ELSE IF planned.method = "atr" \/ pcfg.atr_fallback_enabled
        THEN ExtendTp(planned, side, entry, broker)
        ELSE NoPlan

\* What one method of the priority list plans before the gate.
plan_from_method(method, side, entry, atr, structures, broker) ==
    IF method \in {"order_block", "fair_value_gap"}
    THEN plan_from_structure(method, side, entry, atr, structures, broker)
    ELSE IF method = "rejection"
    THEN plan_from_rejection(side, entry, atr, structures, broker)
    ELSE IF method = "atr" THEN plan_from_atr(side, entry, atr, broker)
    ELSE NoPlan

\* StructureExitPlanner.plan over the priority list from position i: the
\* first method that plans something goes to the RR gate and the gate's
\* answer is returned; a method that plans nothing passes to the next one.
RECURSIVE plan_from(_, _, _, _, _, _, _)
plan_from(i, side, entry, atr, structures, broker, pcfg) ==
    IF i > Len(pcfg.exit_priority) THEN NoPlan
    ELSE LET planned == plan_from_method(pcfg.exit_priority[i], side, entry,
                                         atr, structures, broker)
         IN  IF planned.ok
             THEN apply_rr_gate_and_return(planned, side, entry, broker, pcfg)
             ELSE plan_from(i + 1, side, entry, atr, structures, broker, pcfg)

plan(side, entry, atr, structures, broker, pcfg) ==
    plan_from(1, side, entry, atr, structures, broker, pcfg)

\* ------------------------------------------- decision generation, planned
\* A structure with its structure_type.
Typed(s, kind) == [kind |-> kind] @@ s

\* _nearest(structures, t) as the planner's nearest zone: the first structure
\* of type t with the least |midpoint - entry_price|, its edges in planner
\* units.
nearest(structures, kind, entry) ==
    LET c == {i \in 1..Len(structures) : structures[i].kind = kind}
        dist(i) == Abs(structures[i].high + structures[i].low - 2 * entry)
        best == {i \in c : \A j \in c : dist(i) <= dist(j)}
        first == CHOOSE i \in best : \A j \in best : i <= j
    IN  IF c = {} THEN NoZone
        ELSE Zone(PointSub * Min(structures[first].low, structures[first].high),
                  PointSub * Max(structures[first].low, structures[first].high))

structures_map(structures, entry) ==
    [order_block |-> nearest(structures, "order_block", entry),
     fair_value_gap |-> nearest(structures, "fair_value_gap", entry),
     rejection |-> nearest(structures, "rejection", entry)]

\* exit_planner.plan for structure s when the planner is enabled and ATR is
\* available (atr is None when the window is too short); no plan otherwise.
\* planner holds enabled, broker and pcfg.
PlanFor(s, structures, entry, atr, planner) ==
    IF planner.enabled /\ atr # None
    THEN plan(IF s.bull THEN "BUY" ELSE "SELL", PointSub * entry, atr,
              structures_map(structures, entry), planner.broker, planner.pcfg)
    ELSE NoPlan

\* SL/TP of structure s before the safety clamp: those of plan p when there
\* is one, the legacy exits otherwise.
Exits(p, s, entry) ==
    IF p.ok
    THEN [sl |-> p.sl \div PointSub, tp |-> p.tp \div PointSub,
          method |-> p.method]
    ELSE [sl |-> IF s.bull THEN s.low - (s.high - s.low) \div 10
                 ELSE s.high + (s.high - s.low) \div 10,
          tp |-> IF s.bull THEN entry + 2 * (s.high - s.low)
                 ELSE entry - 2 * (s.high - s.low),
          method |-> "legacy"]

DecisionUnchecked(x, s, entry) ==
    << [type |-> IF s.bull THEN "BUY" ELSE "SELL",
        entry |-> entry, sl |-> x.sl, tp |-> x.tp,
        conf |-> s.quality, sid |-> s.id, volume |-> 10,
        exit_method |-> x.method] >>

\* Safety clamp on exits x, risk <= 0 skip, Decision construction (whose
\* __post_init__ raises on a non-positive SL/TP or one on the wrong side of
\* the entry; the exception is caught and the structure skipped).
Decision(x, s, entry) ==
    LET epsilon == Max(1, (s.high - s.low) \div 100)
        sl == IF s.bull
              THEN (IF x.sl >= entry THEN entry - epsilon ELSE x.sl)
              ELSE (IF x.sl <= entry THEN entry + epsilon ELSE x.sl)
        tp == IF s.bull
              THEN (IF x.tp <= entry THEN entry + epsilon ELSE x.tp)
              ELSE (IF x.tp >= entry THEN entry - epsilon ELSE x.tp)
        risk == IF s.bull THEN entry - sl ELSE sl - entry
        raises == \/ sl <= 0 \/ tp <= 0
                  \/ s.bull /\ (sl >= entry \/ tp <= entry)
                  \/ ~s.bull /\ (sl <= entry \/ tp >= entry)
    IN  IF risk <= 0 \/ raises THEN <<>>
        ELSE << [type |-> IF s.bull THEN "BUY" ELSE "SELL",
                 entry |-> entry, sl |-> sl, tp |-> tp,
                 conf |-> s.quality, sid |-> s.id, volume |-> 10,
                 exit_method |-> x.method] >>

\* The loop body of _process_decision_generation for structure s.
GenerateDecision(s, structures, entry, atr, planner) ==
    Decision(Exits(PlanFor(s, structures, entry, atr, planner), s, entry),
             s, entry)

\* _process_decision_generation over the structures from position i.
RECURSIVE generate_decisions(_, _, _, _, _)
generate_decisions(i, structures, entry, atr, planner) ==
    IF i > Len(structures) THEN <<>>
    ELSE GenerateDecision(structures[i], structures, entry, atr, planner)
         \o generate_decisions(i + 1, structures, entry, atr, planner)

\* ------------------------------------------------------ structure detectors
\* Detectors see the bar window data.bars, a sequence of bars
\* [open, high, low, close]; Python index k is position k + 1 here.
atr_window == 14
ob_debounce_bars == 3
bos_debounce_bars == 2
pivot_window == 4
\* displacement_min_body_atr = 0.50
displacement_min_body_atr_num == 1
displacement_min_body_atr_den == 2

TrueRange(bars, i) ==
    Max(bars[i].high - bars[i].low,
        Max(Abs(bars[i].high - bars[i - 1].close),
            Abs(bars[i].low - bars[i - 1].close)))

RECURSIVE SumTrueRanges(_, _, _)
SumTrueRanges(bars, from, to) ==
    IF from > to THEN 0
    ELSE TrueRange(bars, from) + SumTrueRanges(bars, from + 1, to)

\* compute_atr_simple times the period (the ATR is this sum / atr_window);
\* None when there are fewer than atr_window + 1 bars.
compute_atr_simple(bars) ==
    IF Len(bars) < atr_window + 1 THEN None
    ELSE SumTrueRanges(bars, Len(bars) - atr_window + 1, Len(bars))

Emitted(detector, direction, origin_index) ==
    [detector |-> detector, direction |-> direction, origin_index |-> origin_index]

\* OrderBlockDetector.detect: the new last_detection_index and the structures
\* returned.
OrderBlockDetect(last_detection_index, bars) ==
    LET n == Len(bars)
        atr == compute_atr_simple(bars)
        prev_bar == bars[n - 1]
        curr_bar == bars[n]
        prev_body == Abs(prev_bar.close - prev_bar.open)
        displaced == prev_body * displacement_min_body_atr_den * atr_window
                         >= displacement_min_body_atr_num * atr
        is_bullish_ob == displaced /\ curr_bar.close > prev_bar.high
        is_bearish_ob == displaced /\ curr_bar.close < prev_bar.low
        nothing == [last |-> last_detection_index, out |-> {}]
    IN  IF n < 3 \/ atr = None \/ atr = 0 THEN nothing
        ELSE IF n - last_detection_index < ob_debounce_bars THEN nothing
        ELSE IF is_bullish_ob \/ is_bearish_ob
        THEN [last |-> n - 1,
              out |-> {Emitted("order_block",
                               IF is_bullish_ob THEN "bullish" ELSE "bearish",
                               n - 2)}]
        ELSE nothing

\* BreakOfStructureDetector.detect: last is [index, direction] of the last
\* break (index None before the first).
BreakOfStructureDetect(last, bars) ==
    LET n == Len(bars)
        atr == compute_atr_simple(bars)
        pivot_bars == (n - pivot_window)..(n - 1)
        pivot_high == CHOOSE h \in {bars[i].high : i \in pivot_bars} :
                          \A i \in pivot_bars : bars[i].high <= h
        pivot_low == CHOOSE l \in {bars[i].low : i \in pivot_bars} :
                         \A i \in pivot_bars : bars[i].low >= l
        debounced(direction) ==
            last.direction = direction /\ n - last.index < bos_debounce_bars
        bullish_bos == bars[n].close > pivot_high /\ ~debounced("bullish")
        bearish_bos == bars[n].close < pivot_low /\ ~debounced("bearish")
        direction == IF bullish_bos THEN "bullish" ELSE "bearish"
    IN  IF n < pivot_window + 2 \/ atr = None \/ atr = 0
        THEN [last |-> last, out |-> {}]
        ELSE IF bullish_bos \/ bearish_bos
        THEN [last |-> [index |-> n - 1, direction |-> direction],
              out |-> {Emitted("break_of_structure", direction, n - 1)}]
        ELSE [last |-> last, out |-> {}]

\* -------------------------------------------------------- symbol onboarding
\* SymbolOnboardingManager for one symbol.  m.cfg is the symbol's entry of the
\* configuration with the defaults filled in for absent keys (state promoted,
\* execute_when_promoted true, thresholds 0); m.entry is the symbol's entry
\* of the runtime state, absent until record_decisions writes it;
\* m.seen_sessions the session ids recorded for the symbol.
NoEntry == [present |-> FALSE, state |-> "promoted", execute_when_promoted |-> TRUE,
            probation_min_sessions |-> 0, probation_min_trades |-> 0,
            max_validation_errors |-> 0, sessions_seen |-> 0, trades_seen |-> 0,
            validation_errors |-> 0]

\* Merged onboarding state: runtime state over configuration over defaults.
get_state(m) ==
    IF m.entry.present
    THEN [state |-> m.entry.state,
          execute_when_promoted |-> m.entry.execute_when_promoted,
          probation_min_sessions |-> m.entry.probation_min_sessions,
          probation_min_trades |-> m.entry.probation_min_trades,
          max_validation_errors |-> m.entry.max_validation_errors,
          sessions_seen |-> m.entry.sessions_seen,
          trades_seen |-> m.entry.trades_seen,
          validation_errors |-> m.entry.validation_errors]
    ELSE [state |-> m.cfg.initial_state,
          execute_when_promoted |-> m.cfg.execute_when_promoted,
          probation_min_sessions |-> m.cfg.probation_min_sessions,
          probation_min_trades |-> m.cfg.probation_min_trades,
          max_validation_errors |-> m.cfg.max_validation_errors,
          sessions_seen |-> 0, trades_seen |-> 0, validation_errors |-> 0]

should_execute_when_configured(m) == get_state(m).execute_when_promoted

should_execute(m) ==
    IF get_state(m).state # "promoted" THEN FALSE
    ELSE IF ~get_state(m).execute_when_promoted THEN FALSE
    ELSE TRUE

eligible_without_errors(current) ==
    /\ current.state # "promoted"
    /\ current.sessions_seen >= current.probation_min_sessions
    /\ current.trades_seen >= current.probation_min_trades

\* The promotion test, on the merged state with its counters updated.
eligible(current) ==
    /\ current.state # "promoted"
    /\ current.sessions_seen >= current.probation_min_sessions
    /\ current.trades_seen >= current.probation_min_trades
    /\ current.validation_errors <= current.max_validation_errors

to_state_demoting(current) ==
    IF /\ current.sessions_seen >= current.probation_min_sessions
       /\ current.trades_seen >= current.probation_min_trades
       /\ current.validation_errors <= current.max_validation_errors
    THEN "promoted" ELSE "observe_only"

\* The state record_decisions leaves: promoted when eligible, else unchanged.
to_state(current) ==
    IF eligible(current) THEN "promoted" ELSE current.state

CountedPerCall(m, decisions, trades, session_id, validation_errors) ==
    [get_state(m) EXCEPT
       !.sessions_seen = IF decisions /\ session_id # "none" THEN @ + 1 ELSE @,
       !.trades_seen = @ + trades,
       !.validation_errors = @ + validation_errors]

\* Counter updates of record_decisions; trades is the number of BUY/SELL
\* decisions, decisions is whether the list is non-empty, session_id "none"
\* stands for None.
Counted(m, decisions, trades, session_id, validation_errors) ==
    [get_state(m) EXCEPT
       !.sessions_seen = IF decisions /\ session_id # "none"
                            /\ session_id \notin m.seen_sessions
                         THEN @ + 1 ELSE @,
       !.trades_seen = @ + trades,
       !.validation_errors = @ + validation_errors]

\* record_decisions: counters, write-back of the merged state, promotion.
record_decisions(m, decisions, trades, session_id, validation_errors) ==
    LET current == Counted(m, decisions, trades, session_id, validation_errors)
    IN  [m EXCEPT
           !.seen_sessions = IF decisions /\ session_id # "none"
                             THEN @ \cup {session_id} ELSE @,
           !.entry = [present |-> TRUE] @@
                     [current EXCEPT !.state = to_state(current)]]

\* ======================================================== conflict resolver
\* The signals of the history that are not older than lookback_bars.
RecentSignals(history, current_bar_index) ==
    SelectSeq(history,
              LAMBDA e : e.idx >= current_bar_index - conflict_lookback_bars)

CountSignals(signals, direction) ==
    Len(SelectSeq(signals, LAMBDA e : e.direction = direction))

check_signal_conflict_never(history, direction, current_bar_index) ==
    [history |-> Append(RecentSignals(history, current_bar_index),
                        [direction |-> direction, idx |-> current_bar_index]),
     buy_count |-> CountSignals(RecentSignals(history, current_bar_index), "BUY"),
     sell_count |-> CountSignals(RecentSignals(history, current_bar_index), "SELL"),
     threshold_bump |-> 0]

\* TradingPipeline.check_signal_conflict (resolver enabled): the history is
\* pruned, the opposing signals are counted, the signal is appended; the
\* threshold bump is returned when an opposing signal was counted.
check_signal_conflict(history, direction, current_bar_index) ==
    LET recent == RecentSignals(history, current_bar_index)
        buy_count == CountSignals(recent, "BUY")
        sell_count == CountSignals(recent, "SELL")
        has_conflict == \/ direction = "BUY" /\ sell_count > 0
                        \/ direction = "SELL" /\ buy_count > 0
    IN  [history |-> Append(recent, [direction |-> direction,
                                     idx |-> current_bar_index]),
         buy_count |-> buy_count,
         sell_count |-> sell_count,
         threshold_bump |-> IF has_conflict THEN conflict_threshold_bump ELSE 0]

\* process_bar: the trade is skipped when the bump is positive and the
\* confidence is below base_threshold + threshold_bump.
ConflictBlocks(threshold_bump, confidence) ==
    /\ threshold_bump > 0
    /\ confidence < min_composite + threshold_bump

\* ================================================== higher-timeframe bias
\* get_htf_bias: close against the EMA and the neutral zone atr * mult;
\* offset is current_close - ema.
NeutralZone(atr) == (atr * neutral_zone_atr_mult_num) \div neutral_zone_atr_mult_den

get_htf_bias(offset, atr) ==
    IF offset > NeutralZone(atr) THEN "bullish"
    ELSE IF offset < -NeutralZone(atr) THEN "bearish"
    ELSE "neutral"

\* distance_from_ema > neutral_zone * hard_block_clear_trend_mult
ClearTrend(offset, atr) ==
    (IF offset < 0 THEN -offset ELSE offset) * hard_block_clear_trend_mult_den
        > NeutralZone(atr) * hard_block_clear_trend_mult_num

elite_eligible_structures ==
    {"engulfing", "order_block", "break_of_structure", "fair_value_gap"}

\* TradingPipeline.apply_htf_bias (bias enabled); hard_block is "always"
\* (True), "never" (False) or "conditional".
apply_htf_bias(hard_block, offset, atr, direction, original_score, structure_type) ==
    LET bias == get_htf_bias(offset, atr)
        is_aligned == \/ bias = "bullish" /\ direction = "BUY"
                      \/ bias = "bearish" /\ direction = "SELL"
        is_counter == \/ bias = "bullish" /\ direction = "SELL"
                      \/ bias = "bearish" /\ direction = "BUY"
        score_modifier == IF is_aligned THEN htf_bias_bonus
                          ELSE IF is_counter THEN -htf_bias_penalty ELSE 0
        is_clear_trend == /\ is_counter
                          /\ hard_block = "conditional"
                          /\ ClearTrend(offset, atr)
        is_elite_eligible == \/ structure_type \in elite_eligible_structures
                             \/ structure_type = ""
        elite_override == /\ is_counter
                          /\ original_score >= htf_override_score
                          /\ ~is_clear_trend
                          /\ is_elite_eligible
        should_block == /\ is_counter
                        /\ ~elite_override
                        /\ \/ hard_block = "always"
                           \/ hard_block = "conditional" /\ is_clear_trend
    IN  [bias |-> bias,
         alignment |-> IF is_aligned THEN "aligned"
                       ELSE IF is_counter THEN "counter" ELSE "neutral",
         adjusted_score |-> original_score + score_modifier,
         is_clear_trend |-> is_clear_trend,
         elite_override |-> elite_override,
         should_block |-> should_block]

\* ==================================================================== state
VARIABLES
    now,        \* time of the last processed bar, in bars since day 0 00:00 UTC
    cfg,        \* risk configuration: per_trade_pct, cap_pct
    pl,         \* TradingPipeline fields (guards, counters)
    jr,         \* TradeJournal fields, last_position_check_time, the journal file
    bk,         \* broker side: next ticket, open positions, closing deals
    bar,        \* what the last process_bar call did (its log and its calls)
    hist,       \* history of the run: event logs over all bars
    px,         \* the last StructureExitPlanner.plan call: arguments and result
    gen,        \* decision generation of the last bar and the order it led to
    det,        \* bar window, detector debounce state, structures emitted so far
    runs,       \* two pipelines run over the same bars at different wall-clock times
    onb,        \* symbol onboarding manager and what the last calls saw
    disk,       \* onboarding state file and the _save_state call writing it
    ses,        \* SessionManager and what the last bar did with it
    gt,         \* execution gates: limits, open positions seen, verdicts of the last bar
    sig,        \* conflict resolver: signal history and its last check
    htf,        \* the last apply_htf_bias call: arguments and result
    snd,        \* executor configuration and its last _send_order_mt5 call
    win         \* bar buffer of the live loop and the detector run on it

\* State outside the bar loop of one pipeline.
ext == <<px, gen, det, runs, onb, disk, ses, gt, sig, htf, snd, win>>

\* State of the persistence, session and gate components.
aux == <<disk, ses, gt, sig, htf, snd, win>>

\* State of the conflict resolver, of the higher-timeframe bias, of the
\* configured executor and of the bar buffer.
more == <<sig, htf, snd, win>>

vars == <<now, cfg, pl, jr, bk, bar, hist, px, gen, det, runs, onb, disk, ses, gt,
          sig, htf, snd, win>>

NoSizing == [outcome |-> "none", volume |-> 0, steps |-> 0, stop |-> 0,
             new_trade_risk |-> 0, open_risk_before |-> 0,
             risk_budget |-> 0, cap_budget |-> 0]

NoResult == [success |-> FALSE, precheck_block |-> FALSE, submits |-> 0,
             retcode |-> None, error |-> "not_called"]

EmptyBar == [events |-> {}, orders_sent |-> 0, submits |-> 0, generated |-> 0,
             result |-> NoResult, sized |-> NoSizing, equity |-> None,
             reset_equity |-> None, failures_before |-> 0, executed_risk_before |-> 0]

DefaultRiskCfg == [per_trade_pct |-> per_trade_pct,
                   cap_pct |-> per_symbol_open_risk_cap_pct]

InitPipeline ==
    [last_reset_date |-> None,
     dd_soft_triggered |-> FALSE,
     dd_hard_triggered |-> FALSE,
     dd_baseline_equity |-> None,
     ftmo_account_start_equity |-> None,
     ftmo_daily_equity_low |-> None,
     ftmo_total_equity_low |-> None,
     ftmo_daily_stop_triggered |-> FALSE,
     ftmo_total_stop_triggered |-> FALSE,
     consecutive_send_failures |-> 0,
     last_failure_time |-> None,
     processed_bars |-> 0]

\* journal_file: the tickets whose outcome the daily journal file holds;
\* journal_dir_writable: whether opening that file for writing succeeds.
InitJournal == [entry_cache |-> {}, recorded_tickets |-> {},
                last_position_check_time |-> 0,
                journal_file |-> {}, journal_dir_writable |-> TRUE]

InitBroker == [next_ticket |-> 1, positions |-> {}, deals |-> {}]

InitHist == [hard_hit_date |-> None, soft_hit_date |-> None, ftmo_hit |-> FALSE,
             ever_cached |-> {}, position_closed |-> {}, trade_outcome_recorded |-> {}]

\* No plan() call yet.  A call's arguments: side, entry, atr, the nearest
\* zone per structure type, the broker metadata (min_stop_distance,
\* max_stop_distance) and the sltp configuration (exit_priority,
\* atr_fallback_enabled); defaults as in the planner.
NoCall == [called |-> FALSE, side |-> "BUY", entry |-> 0, atr |-> 0,
           structures |-> [order_block |-> NoZone, fair_value_gap |-> NoZone,
                           rejection |-> NoZone],
           broker |-> [min_stop |-> 0, max_stop |-> None],
           pcfg |-> [exit_priority |-> <<"atr">>, atr_fallback_enabled |-> TRUE],
           result |-> NoPlan]

\* Nothing generated yet.  planner: sltp configuration (enabled, broker
\* metadata, pcfg); request: the last order_send request, if one was sent.
NoGen == [structures |-> <<>>, atr |-> None,
          planner |-> [enabled |-> FALSE, broker |-> NoCall.broker,
                       pcfg |-> NoCall.pcfg],
          decisions |-> <<>>, submitted |-> FALSE,
          request |-> [type |-> "none", entry |-> 0, sl |-> 0, tp |-> 0,
                       volume |-> 0]]

\* A quiet window long enough for ATR, and fresh detectors.
FlatBar == [open |-> BasePrice, high |-> BasePrice + 5, low |-> BasePrice - 5,
            close |-> BasePrice]
InitDetectors ==
    [bars |-> [i \in 1..(atr_window + 1) |-> FlatBar],
     ob_last_detection_index |-> -999,
     bos_last |-> [index |-> None, direction |-> "none"],
     emitted |-> {}]

\* Two freshly constructed pipelines; t is the time of the last bar given to
\* both, clock_b the wall clock of the second run.
InitRuns ==
    [t |-> 0, clock_b |-> 0,
     a |-> [pl |-> InitPipeline, jr |-> InitJournal, bk |-> InitBroker, bar |-> EmptyBar],
     b |-> [pl |-> InitPipeline, jr |-> InitJournal, bk |-> InitBroker, bar |-> EmptyBar]]

\* Manager with configuration c and an empty state file.  calls counts the
\* calls made so far, from is the state record_decisions last started from,
\* checked the state process_bar last asked should_execute about, repeated
\* whether record_decisions last got decisions of a session already seen.
InitOnboarding(c) ==
    [cfg |-> c, entry |-> NoEntry, seen_sessions |-> {}, calls |-> 0,
     from |-> "none", checked |-> "none", execute |-> TRUE, repeated |-> FALSE]

\* No onboarding configuration for the symbol: the defaults.
DefaultOnboarding ==
    [initial_state |-> "promoted", execute_when_promoted |-> TRUE,
     probation_min_sessions |-> 0, probation_min_trades |-> 0,
     max_validation_errors |-> 0]

\* SessionManager after construction (no current session, counters reset)
\* and a bar log with nothing in it.
\*   loaded       : SessionManager was constructed (else session_mgr is None)
\*   autonomy     : close_positions_on_session_end, max_full_sl_hits_per_session
\*   volatility   : volatility pause enabled, min_pause_seconds in bars
\*   calls .. until : the last process_bar call: number of calls so far, the
\*                  event of its first try block, session before the call,
\*                  session_rotated logged, counters reset, close_positions
\*                  called, full_sl_hits when the circuit breaker line was
\*                  reached, end of the pause its inputs called for
SessionsWith(loaded, close_on_end, max_hits, pause_enable) ==
    [loaded |-> loaded,
     close_positions_on_session_end |-> close_on_end,
     max_full_sl_hits_per_session |-> max_hits,
     volatility_pause_enable |-> pause_enable,
     current_session |-> "none", full_sl_hits |-> 0, paused_until_ts |-> None,
     calls |-> 0, event |-> "none", prev |-> "none", rotated |-> FALSE,
     counters_reset |-> FALSE, close_requested |-> FALSE,
     hits_seen |-> 0, pause_called_until |-> None]

InitSessions == SessionsWith(TRUE, FALSE, default_max_full_sl_hits, FALSE)

\* Position limits of the pipeline, the open positions of the symbol at the
\* broker (directions; external: not opened by this pipeline) and the gate
\* chain of the last bar: direction of the sized decision, positions counted,
\* gate the inputs made block, gates evaluated, gate that blocked.
GatesWith(max_symbol, max_direction, external) ==
    [max_positions_per_symbol |-> max_symbol,
     max_positions_per_direction |-> max_direction,
     external |-> external, own |-> <<>>, bars |-> 0,
     direction |-> "none", total |-> 0, same |-> 0, blocker |-> "none",
     evaluated |-> <<>>, blocked |-> "none"]

InitGates == GatesWith(max_positions_per_symbol, max_positions_per_direction, <<>>)

\* No state file yet, nothing being written.
InitDisk == [written |-> "none", entry |-> NoEntry, seen_sessions |-> {},
             writing |-> FALSE, restarts |-> 0]

\* Conflict resolver after construction and no check made yet; the fields
\* after history describe the last bar: whether check_signal_conflict was
\* called, with what, the history it found and what it returned.
InitSignals ==
    [history |-> <<>>, checked |-> FALSE, direction |-> "none", confidence |-> 0,
     index |-> 0, before |-> <<>>, buy_count |-> 0, sell_count |-> 0,
     threshold_bump |-> 0]

\* No apply_htf_bias call yet; hard_block is the configured mode.
BiasWith(hard_block) ==
    [hard_block |-> hard_block, called |-> FALSE, offset |-> 0, atr |-> 0,
     direction |-> "none", original_score |-> 0, structure_type |-> "",
     result |-> [bias |-> "neutral", alignment |-> "neutral", adjusted_score |-> 0,
                 is_clear_trend |-> FALSE, elite_override |-> FALSE,
                 should_block |-> FALSE]]

NoBias == BiasWith("never")

\* Executor configured as c, no _send_order_mt5 call yet.
SenderWith(c) ==
    [cfg |-> c, calls |-> 0, first |-> [type |-> "none", entry |-> 0, sl |-> 0,
                                        tp |-> 0, volume |-> 0],
     result |-> SendOutcome([success |-> FALSE, submits |-> 0, retcode |-> None,
                             request |-> [type |-> "none", entry |-> 0, sl |-> 0,
                                          tp |-> 0, volume |-> 0],
                             retries |-> 0],
                            FALSE, "none", "none", NoModify, NoClose, {})]

NoSend == SenderWith(ExecutorConfig(max_requotes, enable_adaptive_retry_on_10016,
                                    FALSE, FALSE))

\* A bar buffer holding the quiet window and a fresh OrderBlockDetector.
\*   maxlen  : deque(maxlen) of the live loop; None for a series that grows
\*   arrived : bars appended since the detector last fired, the newest
\*             included (None before it first fired)
\*   qualifies, emitted : the pattern is on the newest bar; detect returned it
BufferWith(maxlen) ==
    [maxlen |-> maxlen, bars |-> InitDetectors.bars,
     last_detection_index |-> InitDetectors.ob_last_detection_index,
     fed |-> 0, arrived |-> None, since |-> None,
     qualifies |-> FALSE, emitted |-> FALSE]

InitBuffer == BufferWith(None)

InitMore ==
    /\ sig = InitSignals
    /\ htf = NoBias
    /\ snd = NoSend
    /\ win = InitBuffer

InitAux ==
    /\ disk = InitDisk
    /\ ses = InitSessions
    /\ gt = InitGates
    /\ InitMore

InitExt ==
    /\ InitAux
    /\ onb = InitOnboarding(DefaultOnboarding)
    /\ px = NoCall
    /\ gen = NoGen
    /\ det = InitDetectors
    /\ runs = InitRuns

InitWith(c) ==
    /\ InitExt
    /\ now = 0
    /\ cfg = c
    /\ pl = InitPipeline
    /\ jr = InitJournal
    /\ bk = InitBroker
    /\ bar = EmptyBar
    /\ hist = InitHist

Init == InitWith(DefaultRiskCfg)

\* ------------------------------------------------------ position reconciling
\* Risk still open at the broker from orders the pipeline executed.
RECURSIVE SumRisk(_)
SumRisk(ps) ==
    IF ps = {} THEN 0
    ELSE LET p == CHOOSE x \in ps : TRUE IN p.risk + SumRisk(ps \ {p})

\* track_position_closes at time t: every closing deal in the fetch window
\* [last_position_check_time, t] logs position_closed and goes to the journal.
FetchedDeals(j, b, t) ==
    {d \in b.deals : j.last_position_check_time <= d.time /\ d.time <= t}

already_recorded_never(j, ticket) == FALSE

\* The duplicate check at the head of TradeJournal.record_outcome.
already_recorded(j, ticket) == ticket \in j.recorded_tickets

\* TradeJournal._write_to_journal for the tickets in ts: the outcomes are
\* appended to the file; an exception raised by the file operations is
\* logged (trade_journal_write_failed) and swallowed.
write_to_journal(j, ts) ==
    IF j.journal_dir_writable THEN j.journal_file \cup ts ELSE j.journal_file

\* TradeJournal.record_outcome for the tickets in ts: no-op for a ticket
\* already recorded; otherwise the entry leaves the cache, the outcome is
\* written and the ticket joins the recorded set.
record_outcome(j, ts) ==
    [j EXCEPT !.entry_cache = @ \ ts,
              !.journal_file = write_to_journal(j, ts \ j.recorded_tickets),
              !.recorded_tickets = @ \cup ts]

track_position_closes(j, b, t) ==
    LET tickets == {d.ticket : d \in FetchedDeals(j, b, t)}
    IN  [record_outcome(j, tickets) EXCEPT !.last_position_check_time = t]

\* The events track_position_closes logs at time t.
ClosedEvents(j, b, t) ==
    {[ticket |-> d.ticket, deal |-> d.time, at |-> t] : d \in FetchedDeals(j, b, t)}

OutcomeEvents(j, b, t) ==
    {[ticket |-> d.ticket, at |-> t] :
        d \in {x \in FetchedDeals(j, b, t) : ~already_recorded(j, x.ticket)}}

\* ------------------------------------------------------------- daily reset
\* First bar of a new UTC date: soft flag cleared, baseline and FTMO daily
\* low set to the equity read at the reset, FTMO daily flag cleared.
NeedsReset(p, t) == p.last_reset_date = None \/ Date(t) > p.last_reset_date

DailyResetKeepSoft(p, t, current_equity) ==
    IF NeedsReset(p, t)
    THEN [p EXCEPT !.dd_baseline_equity = current_equity,
                   !.last_reset_date = Date(t),
                   !.ftmo_daily_equity_low = current_equity,
                   !.ftmo_daily_stop_triggered = FALSE]
    ELSE p

DailyReset(p, t, current_equity) ==
    IF NeedsReset(p, t)
    THEN [p EXCEPT !.dd_soft_triggered = FALSE,
                   !.dd_baseline_equity = current_equity,
                   !.last_reset_date = Date(t),
                   !.ftmo_daily_equity_low = current_equity,
                   !.ftmo_daily_stop_triggered = FALSE]
    ELSE p

\* ------------------------------------------------------ pre-execution guards
\* dd <= pct percent of base, for base > 0:  (equity - base) / base * 100 <= pct
DrawdownAtOrBelow(equity, base, pct) == (equity - base) * 100 <= pct * base

HardStopOnly(p) == [p EXCEPT !.dd_hard_triggered = TRUE]

\* Daily hard stop: sets both flags.
HardStop(p) == [p EXCEPT !.dd_hard_triggered = TRUE, !.dd_soft_triggered = TRUE]

\* FTMO bookkeeping before the limit checks.
FtmoTrack(p, equity) ==
    [p EXCEPT !.ftmo_account_start_equity = IF @ = None THEN equity ELSE @,
              !.ftmo_daily_equity_low = IF @ = None \/ equity < @ THEN equity ELSE @,
              !.ftmo_total_equity_low = IF @ = None \/ equity < @ THEN equity ELSE @]

FailurePauseNever(p) == FALSE

\* The send-failure pause test.
FailurePause(p) ==
    p.consecutive_send_failures >= Max(max_consecutive_send_failures, 0)

\* The guard block of process_bar once decisions exist (LIVE with real
\* orders).  halt names the event of the guard that returned, or "none".
Guards(p0, equity) ==
    LET p1 == IF p0.dd_baseline_equity = None
              THEN [p0 EXCEPT !.dd_baseline_equity = equity] ELSE p0
        base == p1.dd_baseline_equity
        p2 == FtmoTrack(p1, equity)
        start == p2.ftmo_account_start_equity
    IN  IF p0.dd_soft_triggered
        THEN [pl |-> p0, halt |-> "execution_skipped_soft_stop"]
        ELSE IF /\ base > 0
                /\ ~p1.dd_hard_triggered
                /\ DrawdownAtOrBelow(equity, base, daily_hard_stop_pct)
        THEN [pl |-> HardStop(p1), halt |-> "daily_hard_stop_hit"]
        ELSE IF /\ base > 0
                /\ ~p1.dd_soft_triggered
                /\ DrawdownAtOrBelow(equity, base, daily_soft_stop_pct)
        THEN [pl |-> [p1 EXCEPT !.dd_soft_triggered = TRUE],
              halt |-> "daily_soft_stop_hit"]
        ELSE IF /\ base > 0
                /\ ~p2.ftmo_daily_stop_triggered
                /\ DrawdownAtOrBelow(p2.ftmo_daily_equity_low, base,
                                     ftmo_max_daily_loss_pct)
        THEN [pl |-> [p2 EXCEPT !.ftmo_daily_stop_triggered = TRUE],
              halt |-> "ftmo_daily_limit_hit"]
        ELSE IF /\ start > 0
                /\ ~p2.ftmo_total_stop_triggered
                /\ DrawdownAtOrBelow(p2.ftmo_total_equity_low, start,
                                     ftmo_max_total_loss_pct)
        THEN [pl |-> [p2 EXCEPT !.ftmo_total_stop_triggered = TRUE],
              halt |-> "ftmo_total_limit_hit"]
        ELSE IF FailurePause(p2)
        THEN [pl |-> p2, halt |-> "order_send_failure_pause"]
        ELSE [pl |-> p2, halt |-> "none"]

\* ------------------------------------------------- send-failure accounting
\* After execute_order at time t: success resets, a failure that is not a
\* pre-check block counts, then the cooldown reset is applied.
FailureAccountingCountingAll(p, r, t) ==
    LET p1 == IF ~r.precheck_block
              THEN [p EXCEPT !.consecutive_send_failures = @ + 1,
                             !.last_failure_time = t]
              ELSE p
    IN  IF /\ p1.last_failure_time # None
           /\ p1.consecutive_send_failures > 0
           /\ (t - p1.last_failure_time) * SecondsPerBar > failure_cooldown_seconds
        THEN [p1 EXCEPT !.consecutive_send_failures = 0, !.last_failure_time = None]
        ELSE p1

FailureAccounting(p, r, t) ==
    LET p1 == IF r.success
              THEN [p EXCEPT !.consecutive_send_failures = 0,
                             !.last_failure_time = None]
              ELSE IF ~r.precheck_block
              THEN [p EXCEPT !.consecutive_send_failures = @ + 1,
                             !.last_failure_time = t]
              ELSE p
    IN  IF /\ p1.last_failure_time # None
           /\ p1.consecutive_send_failures > 0
           /\ (t - p1.last_failure_time) * SecondsPerBar > failure_cooldown_seconds
        THEN [p1 EXCEPT !.consecutive_send_failures = 0, !.last_failure_time = None]
        ELSE p1

\* open_risk_before of the sizer: MT5Executor defines neither
\* get_open_risk_by_symbol nor add_open_risk, so the hasattr tests of the
\* pipeline fail and open_risk_before stays 0.
executor_has_open_risk_api == FALSE
open_risk_before(b) ==
    IF executor_has_open_risk_api THEN SumRisk(b.positions) ELSE 0

\* ------------------------------------------------------------ execution loop
\* Gate chain between sizing and execute_order; the input names the gate
\* that blocks the trade ("none": all gates pass).
Gates == {"none", "trade_blocked_by_position_limit"}

\* After execute_order returned r for a decision sized as sz, at bar time t:
\* journal entry cached under the broker's ticket, failure accounting.
Executed(st, sz, r, t) ==
    [pl |-> FailureAccounting(st.pl, r, t),
     jr |-> IF r.success
            THEN [st.jr EXCEPT !.entry_cache = @ \cup {st.bk.next_ticket}]
            ELSE st.jr,
     bk |-> IF r.success
            THEN [st.bk EXCEPT
                    !.next_ticket = @ + 1,
                    !.positions = @ \cup {[ticket |-> st.bk.next_ticket,
                                           risk |-> sz.new_trade_risk]}]
            ELSE st.bk,
     bar |-> [st.bar EXCEPT
                !.events = @ \cup {"execution_sized"},
                !.sized = sz,
                !.orders_sent = @ + 1,
                !.submits = @ + r.submits,
                !.result = r]]

\* The loop body after sizing: sizer rejections, gate chain, execute_order.
Sized(st, d, sz, gate, info, script, t) ==
    IF sz.outcome # "execution_sized"
    THEN [st EXCEPT !.bar.events = @ \cup {sz.outcome}, !.bar.sized = sz]
    ELSE IF gate # "none"
    THEN [st EXCEPT !.bar.events = @ \cup {"execution_sized", gate},
                    !.bar.sized = sz]
    ELSE Executed(st, sz,
                  execute_order([d EXCEPT !.volume = sz.volume], info, script), t)

\* One iteration of the loop over decisions, at bar time t.
ExecOne(st, d, equity, gate, info, script, t) ==
    Sized(st, d, SizeDecision(d, equity, cfg, open_risk_before(st.bk)),
          gate, info, script, t)

RECURSIVE ExecLoop(_, _, _, _, _, _, _)
ExecLoop(st, decisions, equity, gate, info, script, t) ==
    IF decisions = <<>> THEN st
    ELSE ExecLoop(ExecOne(st, Head(decisions), equity, gate, info, script, t),
                  Tail(decisions), equity, gate, info, script, t)

\* -------------------------------------------------------------- process_bar
StopEvents == {"daily_hard_stop_hit", "daily_soft_stop_hit"}
FtmoEvents == {"ftmo_daily_limit_hit", "ftmo_total_limit_hit"}

\* History bookkeeping of one bar (dates of the stop events, journal logs).
Remember(h, halt, t, closed, outcomes, cached) ==
    [h EXCEPT
       !.hard_hit_date = IF halt = "daily_hard_stop_hit" THEN Date(t) ELSE @,
       !.soft_hit_date = IF halt = "daily_soft_stop_hit" THEN Date(t) ELSE @,
       !.ftmo_hit = @ \/ halt \in FtmoEvents,
       !.ever_cached = @ \cup cached,
       !.position_closed = @ \cup closed,
       !.trade_outcome_recorded = @ \cup outcomes]

\* One call of process_bar for the bar at time t, from the pipeline state
\* s0 = [pl, jr, bk]; the result is the state after the call and its log.
\*   clock                : datetime.now() during the call
\*   reset_equity, equity : the two get_equity readings (daily reset, sizing)
\*   generated            : what decision generation returns
\*   gate, info, script   : gate chain verdict, broker quote, broker answers
BarState(s0, t, clock, reset_equity, equity, generated, gate, info, script) ==
    LET jr1 == track_position_closes(s0.jr, s0.bk, t)
        pl1 == [DailyReset(s0.pl, t, reset_equity) EXCEPT !.processed_bars = @ + 1]
        decisions == Dedup(generated)
        bar0 == [EmptyBar EXCEPT
                   !.generated = Len(generated),
                   !.equity = IF decisions = <<>> THEN None ELSE equity,
                   !.reset_equity = IF NeedsReset(s0.pl, t) THEN reset_equity ELSE None,
                   !.failures_before = s0.pl.consecutive_send_failures,
                   !.executed_risk_before = SumRisk(s0.bk.positions)]
        g == Guards(pl1, equity)
        st0 == [pl |-> pl1, jr |-> jr1, bk |-> s0.bk, bar |-> bar0]
    IN  IF decisions = <<>> THEN st0
        ELSE IF g.halt # "none"
        THEN [st0 EXCEPT !.pl = g.pl, !.bar.events = {g.halt}]
        ELSE ExecLoop([st0 EXCEPT !.pl = g.pl], decisions,
                      equity, gate, info, script, clock)

\* The guard event that ended the call, if any.
HaltOf(b) ==
    IF \E e \in b.events : e \in StopEvents \cup FtmoEvents
    THEN CHOOSE e \in b.events : e \in StopEvents \cup FtmoEvents
    ELSE "none"

\* process_bar on the pipeline, given the decisions generated for the bar.
ProcessBarWith(t, reset_equity, equity, generated, gate, info, script) ==
    /\ t > now
    /\ Date(t) <= MaxDay
    /\ now' = t
    /\ \E s \in {BarState([pl |-> pl, jr |-> jr, bk |-> bk], t, t, reset_equity,
                          equity, generated, gate, info, script)} :
        /\ pl' = s.pl
        /\ jr' = s.jr
        /\ bk' = s.bk
        /\ bar' = s.bar
        /\ hist' = Remember(hist, HaltOf(s.bar), t, ClosedEvents(jr, bk, t),
                            OutcomeEvents(jr, bk, t),
                            s.jr.entry_cache \ track_position_closes(jr, bk, t).entry_cache)
    /\ UNCHANGED cfg

\* process_bar with the exit planner disabled (no sltp configuration):
\* every decision gets the legacy exits.
\*   structures : what structure detection returns
ProcessBar(t, reset_equity, equity, structures, gate, info, script) ==
    /\ ProcessBarWith(t, reset_equity, equity,
                      process_decision_generation(structures, Close),
                      gate, info, script)
    /\ UNCHANGED ext

\* A position the pipeline opened is closed at the broker (SL, TP or manual):
\* a closing deal appears in the deal history, stamped with the current bar
\* time or with the time of the bar about to be processed.
BrokerClose(p, stamp) ==
    /\ p \in bk.positions
    /\ p.ticket <= MaxTickets
    /\ stamp \in {now, now + 1}
    /\ bk' = [bk EXCEPT !.positions = @ \ {p},
                        !.deals = @ \cup {[ticket |-> p.ticket, time |-> stamp]}]
    /\ UNCHANGED <<now, cfg, pl, jr, bar, hist>>
    /\ UNCHANGED ext

\* The journal directory becomes unwritable (removed, read-only, disk full)
\* or writable again between two bars.
JournalDir(writable) ==
    /\ writable # jr.journal_dir_writable
    /\ jr' = [jr EXCEPT !.journal_dir_writable = writable]
    /\ UNCHANGED <<now, cfg, pl, bk, bar, hist>>
    /\ UNCHANGED ext

\* ------------------------------------------------------------------- inputs
\* Bar times: the next bar of the day, or the first bar of the next UTC day.
Times == {now + 1, (Date(now) + 1) * BarsPerDay}

\* Structures are given by their low/high prices, direction and quality.
StructA == [id |-> 1, bull |-> TRUE, low |-> Close - 600, high |-> Close - 100,
            quality |-> 80]
StructB == [id |-> 2, bull |-> FALSE, low |-> Close + 200, high |-> Close + 1000,
            quality |-> 70]
StructC == [id |-> 3, bull |-> TRUE, low |-> Close - 200, high |-> Close,
            quality |-> 60]
StructD == [id |-> 4, bull |-> TRUE, low |-> Close + 100, high |-> Close + 300,
            quality |-> 50]
Structures == {StructA, StructB, StructC, StructD}

\* Detection results: up to MaxStructures distinct structures of S, in any order.
RECURSIVE StructureSeqs(_, _)
StructureSeqs(S, n) ==
    IF n = 0 THEN {<<>>}
    ELSE LET shorter == StructureSeqs(S, n - 1)
         IN  shorter \cup
             {Append(q, s) : q \in {x \in shorter : Len(x) = n - 1}, s \in S}

Distinct(q) == \A i, j \in 1..Len(q) : i # j => q[i].id # q[j].id

Detections(S) == {q \in StructureSeqs(S, MaxStructures) : Distinct(q)}

\* Account equity readings.
Equities == {8900, 9790, 9895, default_equity}

\* Broker quote around the close, with the broker's static stop level.
Quote(stop_level) == [bid |-> Close - 20, ask |-> Close + 20, stop_level |-> stop_level]
Infos == {Quote(0), Quote(90)}

Retcodes == {TRADE_RETCODE_DONE, TRADE_RETCODE_REQUOTE,
             TRADE_RETCODE_INVALID_STOPS, TRADE_RETCODE_REJECT}
\* Broker answers per submission; answers after one that ends the loop are
\* never read and are fixed to DONE.
EndsLoop(rc) == rc \in {TRADE_RETCODE_DONE, TRADE_RETCODE_REJECT}
Scripts == {s \in [1..max_attempts -> Retcodes] :
              \A i, j \in 1..max_attempts :
                  (i < j /\ EndsLoop(s[i])) => s[j] = TRADE_RETCODE_DONE}
AllDone == [i \in 1..max_attempts |-> TRADE_RETCODE_DONE]

\* ------------------------------------------------------------ specification
\* Execution and send-failure behaviour at constant equity.
\* Inputs that cannot matter are fixed: no gate verdict without decisions, no
\* quote and no broker answers for a trade a gate blocks.
GatesFor(structures) == IF structures = <<>> THEN {"none"} ELSE Gates
InfosFor(gate) == IF gate = "none" THEN Infos ELSE {Quote(0)}
ScriptsFor(gate) == IF gate = "none" THEN Scripts ELSE {AllDone}

Next ==
    /\ pl.processed_bars < MaxBars
    /\ \E structures \in Detections({StructA, StructB, StructC}) :
           \E gate \in GatesFor(structures) :
               \E info \in InfosFor(gate), script \in ScriptsFor(gate) :
                   ProcessBar(now + 1, default_equity, default_equity,
                              structures, gate, info, script)

Spec == Init /\ [][Next]_vars

\* Drawdown guards: equity moves, days roll over, one structure at most.
ResetEquities(t) == IF NeedsReset(pl, t) THEN Equities ELSE {default_equity}

NextGuards ==
    /\ pl.processed_bars < MaxGuardBars
    /\ \E t \in Times, structures \in {<<>>, <<StructA>>} :
           \E reset_equity \in ResetEquities(t), equity \in Equities :
               ProcessBar(t, reset_equity, equity, structures, "none", Quote(0), AllDone)

SpecGuards == Init /\ [][NextGuards]_vars

\* Risk sizer: the configurations of the sizer tests, every structure.
RiskCfgs == {DefaultRiskCfg,
             [per_trade_pct |-> 1, cap_pct |-> per_symbol_open_risk_cap_pct],
             [per_trade_pct |-> 10000, cap_pct |-> 10]}

InitSizer == \E c \in RiskCfgs : InitWith(c)

NextSizer ==
    /\ pl.processed_bars < MaxSizerBars
    /\ \E structures \in {q \in Detections(Structures) : Len(q) <= 1},
          equity \in Equities :
           ProcessBar(now + 1, equity, equity, structures, "none", Quote(0), AllDone)

SpecSizer == InitSizer /\ [][NextSizer]_vars

\* Journal: positions opened by the pipeline are closed at the broker.
NextJournal ==
    \/ /\ pl.processed_bars < MaxJournalBars
       /\ \E structures \in {<<>>, <<StructA>>} :
              ProcessBar(now + 1, default_equity, default_equity,
                         structures, "none", Quote(0), AllDone)
    \/ \E p \in bk.positions, stamp \in {now, now + 1} : BrokerClose(p, stamp)
    \/ \E writable \in BOOLEAN : JournalDir(writable)

SpecJournal == Init /\ [][NextJournal]_vars

\* Exit planner alone: one plan() call per input.  Prices around the entry
\* Close, in planner units; ATR in points.
P(points) == points * PointSub

PlannerInputs ==
    [side : {"BUY", "SELL"},
     atr : {10, 100, 123},
     structures : [{"order_block", "fair_value_gap", "rejection"} ->
                      {NoZone,
                       Zone(P(Close - 30), P(Close - 10)),
                       Zone(P(Close + 10), P(Close + 25)),
                       Zone(P(Close + 15), P(Close + 30)),
                       Zone(P(Close - 20), P(Close + 30))}],
     broker : {[min_stop |-> 0, max_stop |-> None],
               [min_stop |-> P(20), max_stop |-> None],
               [min_stop |-> P(500), max_stop |-> None],
               [min_stop |-> 0, max_stop |-> P(30)]},
     pcfg : [exit_priority : {<<"atr">>,
                              <<"order_block", "fair_value_gap", "atr">>,
                              <<"rejection", "atr">>},
             atr_fallback_enabled : BOOLEAN]]

InitPlanner ==
    /\ now = 0
    /\ cfg = DefaultRiskCfg
    /\ pl = InitPipeline
    /\ jr = InitJournal
    /\ bk = InitBroker
    /\ bar = EmptyBar
    /\ hist = InitHist
    /\ gen = NoGen
    /\ det = InitDetectors
    /\ runs = InitRuns
    /\ onb = InitOnboarding(DefaultOnboarding)
    /\ InitAux
    /\ \E i \in PlannerInputs :
           px = [NoCall EXCEPT !.side = i.side, !.entry = P(Close), !.atr = i.atr,
                               !.structures = i.structures, !.broker = i.broker,
                               !.pcfg = i.pcfg]

\* StructureExitPlanner.plan on the arguments held in px.
PlannerCall ==
    /\ ~px.called
    /\ px' = [px EXCEPT !.called = TRUE,
                        !.result = plan(px.side, px.entry, px.atr, px.structures,
                                        px.broker, px.pcfg)]
    /\ UNCHANGED <<now, cfg, pl, jr, bk, bar, hist>>
    /\ UNCHANGED <<gen, det, runs, onb>>
    /\ UNCHANGED aux

SpecPlanner == InitPlanner /\ [][PlannerCall]_vars

\* Pipeline with the exit planner enabled (sltp configuration present).
StructE == [id |-> 5, bull |-> FALSE, low |-> Close + 5, high |-> Close + 25,
            quality |-> 90]
ExitStructures == {Typed(StructA, "order_block"), Typed(StructE, "order_block"),
                   Typed(StructD, "engulfing")}
ExitAtrs == {None, 10, 100}
ExitPlanners ==
    [enabled : {TRUE}, broker : {NoCall.broker},
     pcfg : [exit_priority : {<<"order_block", "fair_value_gap", "atr">>},
             atr_fallback_enabled : BOOLEAN]]

\* process_bar with decisions generated through the planner.
ProcessBarPlanned(structures, atr, planner, info, script) ==
    /\ \E generated \in {generate_decisions(1, structures, Close, atr, planner)} :
        /\ ProcessBarWith(now + 1, default_equity, default_equity, generated,
                          "none", info, script)
        /\ gen' = [structures |-> structures, atr |-> atr, planner |-> planner,
                   decisions |-> generated,
                   submitted |-> bar'.result.submits > 0,
                   request |->
                       IF bar'.result.submits > 0
                       THEN send_order_mt5([Head(Dedup(generated)) EXCEPT
                                               !.volume = bar'.sized.volume],
                                           info, script).request
                       ELSE NoGen.request]
    /\ UNCHANGED <<px, det, runs, onb>>
    /\ UNCHANGED aux

NextExits ==
    /\ pl.processed_bars < MaxExitBars
    /\ \E structures \in Detections(ExitStructures), atr \in ExitAtrs,
          planner \in ExitPlanners :
           \E info \in IF structures = <<>> THEN {Quote(0)} ELSE Infos,
              script \in IF structures = <<>> THEN {AllDone} ELSE Scripts :
               ProcessBarPlanned(structures, atr, planner, info, script)

SpecExits == Init /\ [][NextExits]_vars

\* Structure detection on a window fed bar by bar: the new bar opens at the
\* previous close and closes `move` away; every detector runs on the window.
FeedBar(move) ==
    LET prev == det.bars[Len(det.bars)]
        new == [open |-> prev.close, close |-> prev.close + move,
                high |-> Max(prev.close, prev.close + move) + 2,
                low |-> Min(prev.close, prev.close + move) - 2]
        bars == Append(det.bars, new)
        ob == OrderBlockDetect(det.ob_last_detection_index, bars)
        bos == BreakOfStructureDetect(det.bos_last, bars)
    IN  /\ Len(det.bars) < atr_window + 1 + MaxDetBars
        /\ det' = [bars |-> bars,
                   ob_last_detection_index |-> ob.last,
                   bos_last |-> bos.last,
                   emitted |-> det.emitted \cup ob.out \cup bos.out]
        /\ UNCHANGED <<now, cfg, pl, jr, bk, bar, hist, px, gen, runs, onb>>
        /\ UNCHANGED aux

NextDetect == \E move \in {-30, 0, 30} : FeedBar(move)

SpecDetect == Init /\ [][NextDetect]_vars

\* Two runs over the same bar sequence, configuration and broker snapshots.
\* The first run sees each bar as it closes (its wall clock is the bar time);
\* the second run's wall clock is its own: it stands `wait` bar lengths after
\* its previous call.
AllReject == [i \in 1..max_attempts |-> TRADE_RETCODE_REJECT]

ProcessBarTwice(structures, info, script, wait) ==
    LET t == runs.t + 1
        clock_b == runs.clock_b + wait
        generated == process_decision_generation(structures, Close)
    IN  /\ runs.t < MaxRunBars
        /\ runs' = [t |-> t, clock_b |-> clock_b,
                    a |-> BarState(runs.a, t, t, default_equity, default_equity,
                                   generated, "none", info, script),
                    b |-> BarState(runs.b, t, clock_b, default_equity,
                                   default_equity, generated, "none", info, script)]
        /\ UNCHANGED <<now, cfg, pl, jr, bk, bar, hist, px, gen, det, onb>>
        /\ UNCHANGED aux

NextRuns ==
    \E structures \in {<<>>, <<StructA>>, <<StructC>>},
       script \in {AllDone, AllReject}, wait \in {0, 1, 3} :
        ProcessBarTwice(structures, Quote(0), script, wait)

SpecRuns == Init /\ [][NextRuns]_vars

\* Pipeline with a configured onboarding manager; record_decisions is also
\* called directly, with validation errors.
OnboardingConfigs ==
    {[initial_state |-> st, execute_when_promoted |-> ex,
      probation_min_sessions |-> th[1], probation_min_trades |-> th[2],
      max_validation_errors |-> th[3]] :
        st \in {"observe_only", "promoted"}, ex \in BOOLEAN,
        th \in {<<0, 0, 0>>, <<1, 2, 1>>, <<2, 1, 0>>}}
SessionIds == {"none", "london", "ny"}

InitOnboardingSpec ==
    /\ now = 0
    /\ cfg = DefaultRiskCfg
    /\ pl = InitPipeline
    /\ jr = InitJournal
    /\ bk = InitBroker
    /\ bar = EmptyBar
    /\ hist = InitHist
    /\ px = NoCall
    /\ gen = NoGen
    /\ det = InitDetectors
    /\ runs = InitRuns
    /\ InitAux
    /\ \E c \in OnboardingConfigs : onb = InitOnboarding(c)

\* The state file after a completed _save_state of manager m.
Saved(m) == [disk EXCEPT !.written = "complete", !.entry = m.entry,
                         !.seen_sessions = m.seen_sessions, !.writing = FALSE]

\* SymbolOnboardingManager.record_decisions called on the manager.
RecordDecisions(trades, session_id, validation_errors) ==
    /\ onb.calls < MaxOnbCalls
    /\ onb' = [record_decisions(onb, trades > 0, trades, session_id,
                                validation_errors)
                 EXCEPT !.calls = @ + 1, !.from = get_state(onb).state,
                        !.repeated = trades > 0 /\ session_id \in onb.seen_sessions]
    /\ disk' = Saved(onb')
    /\ UNCHANGED <<now, cfg, pl, jr, bk, bar, hist, px, gen, det, runs>>
    /\ UNCHANGED <<ses, gt>>
    /\ UNCHANGED more

\* process_bar: should_execute gates every execute_order of the call;
\* record_decisions runs after the loop over the sized decisions, when there
\* are decisions and no guard ended the call.
ProcessBarOnboarding(structures, info, script, session_id) ==
    LET generated == process_decision_generation(structures, Close)
        decisions == Dedup(generated)
    IN  /\ onb.calls < MaxOnbCalls
        /\ ProcessBarWith(now + 1, default_equity, default_equity, generated,
                          IF should_execute(onb) THEN "none"
                          ELSE "symbol_onboarding_state",
                          info, script)
        /\ onb' = [(IF decisions # <<>> /\ HaltOf(bar') = "none"
                    THEN [record_decisions(onb, TRUE, Len(decisions), session_id, 0)
                            EXCEPT !.from = get_state(onb).state,
                                   !.repeated = session_id \in onb.seen_sessions]
                    ELSE onb)
                     EXCEPT !.calls = @ + 1,
                            !.checked = get_state(onb).state,
                            !.execute = get_state(onb).execute_when_promoted]
        /\ disk' = IF decisions # <<>> /\ HaltOf(bar') = "none"
                   THEN Saved(onb') ELSE disk
        /\ UNCHANGED <<px, gen, det, runs>>
        /\ UNCHANGED <<ses, gt>>
        /\ UNCHANGED more

NextOnboarding ==
    \/ \E trades \in {0, 1}, session_id \in SessionIds, validation_errors \in {0, 1} :
           RecordDecisions(trades, session_id, validation_errors)
    \/ \E structures \in {<<>>, <<StructA>>}, session_id \in SessionIds :
           \E script \in IF structures = <<>> THEN {AllDone} ELSE {AllDone, AllReject} :
               ProcessBarOnboarding(structures, Quote(0), script, session_id)

SpecOnboarding == InitOnboardingSpec /\ [][NextOnboarding]_vars

\* -------------------------------------------------------------- gate chain
\* The gates between execution_sized and execute_order, in program order,
\* named by their block events.
GateChainOrder == <<"trade_blocked_by_margin_guard",
                    "trade_blocked_by_structure_threshold",
                    "trade_blocked_by_position_limit",
                    "trade_blocked_by_conflict_resolver",
                    "trade_blocked_by_htf_bias",
                    "trade_blocked_by_session_filter">>

\* Number of positions in the given direction.
SameDirection(positions, direction) ==
    Cardinality({i \in 1..Len(positions) : positions[i] = direction})

check_position_limit_above(positions, direction, limits) ==
    /\ ~(Len(positions) > limits.max_positions_per_symbol)
    /\ ~(SameDirection(positions, direction) > limits.max_positions_per_direction)

\* check_position_limit (enabled, LIVE, positions_get answering): can_trade.
check_position_limit(positions, direction, limits) ==
    /\ ~(Len(positions) >= limits.max_positions_per_symbol)
    /\ ~(SameDirection(positions, direction) >= limits.max_positions_per_direction)

RunGatesButHtf(blocks) ==
    LET blocking == {i \in 1..Len(GateChainOrder) :
                        /\ blocks[GateChainOrder[i]]
                        /\ GateChainOrder[i] # "trade_blocked_by_htf_bias"}
        first == CHOOSE i \in blocking : \A j \in blocking : i <= j
    IN  IF blocking = {}
        THEN [evaluated |-> GateChainOrder, blocked |-> "none"]
        ELSE [evaluated |-> SubSeq(GateChainOrder, 1, first),
              blocked |-> GateChainOrder[first]]

\* The chain for one sized decision: each gate is evaluated in turn and the
\* first one that blocks logs its event and skips the trade (continue).
\* blocks: for every gate, whether it blocks this decision.
RunGates(blocks) ==
    LET blocking == {i \in 1..Len(GateChainOrder) : blocks[GateChainOrder[i]]}
        first == CHOOSE i \in blocking : \A j \in blocking : i <= j
    IN  IF blocking = {}
        THEN [evaluated |-> GateChainOrder, blocked |-> "none"]
        ELSE [evaluated |-> SubSeq(GateChainOrder, 1, first),
              blocked |-> GateChainOrder[first]]

\* What each gate answers: the position limit from the broker's positions,
\* the other gates from their inputs (account, confidence, recent signals,
\* higher timeframe, session), of which blocker names the one that blocks.
GateVerdicts(g, direction, blocker) ==
    [e \in {GateChainOrder[i] : i \in 1..Len(GateChainOrder)} |->
        IF e = "trade_blocked_by_position_limit"
        THEN ~check_position_limit(g.external \o g.own, direction, g)
        ELSE e = blocker]

MaxGateBars == 4

\* process_bar with the gate chain evaluated.
ProcessBarGated(structures, blocker, script) ==
    LET generated == process_decision_generation(structures, Close)
        decisions == Dedup(generated)
        direction == IF decisions = <<>> THEN "none" ELSE decisions[1].type
        chain == RunGates(GateVerdicts(gt, direction, blocker))
    IN  /\ gt.bars < MaxGateBars
        /\ ProcessBarWith(now + 1, default_equity, default_equity, generated,
                          chain.blocked, Quote(0), script)
        /\ gt' = [gt EXCEPT
                    !.bars = @ + 1,
                    !.direction = direction,
                    !.total = Len(gt.external \o gt.own),
                    !.same = SameDirection(gt.external \o gt.own, direction),
                    !.blocker = blocker,
                    !.evaluated = IF "execution_sized" \in bar'.events
                                  THEN chain.evaluated ELSE <<>>,
                    !.blocked = IF "execution_sized" \in bar'.events
                                THEN chain.blocked ELSE "none",
                    !.own = IF bar'.result.success THEN Append(@, direction) ELSE @]
        /\ UNCHANGED <<px, gen, det, runs, onb>>
        /\ UNCHANGED <<disk, ses>>
        /\ UNCHANGED more

GateConfigs ==
    {GatesWith(max_symbol, max_positions_per_direction, external) :
        max_symbol \in {max_positions_per_symbol, max_positions_per_symbol + 1},
        external \in {<<>>, <<"SELL">>}}

InitGateSpec ==
    /\ now = 0
    /\ cfg = DefaultRiskCfg
    /\ pl = InitPipeline
    /\ jr = InitJournal
    /\ bk = InitBroker
    /\ bar = EmptyBar
    /\ hist = InitHist
    /\ px = NoCall
    /\ gen = NoGen
    /\ det = InitDetectors
    /\ runs = InitRuns
    /\ onb = InitOnboarding(DefaultOnboarding)
    /\ disk = InitDisk
    /\ ses = InitSessions
    /\ \E c \in GateConfigs : gt = c
    /\ InitMore

NextGates ==
    \E structures \in {<<>>, <<StructA>>, <<StructB>>} :
        \E blocker \in IF structures = <<>> THEN {"none"}
                        ELSE {"none"} \cup ({GateChainOrder[i] : i \in 1..Len(GateChainOrder)}
                                             \ {"trade_blocked_by_position_limit"}),
           script \in IF structures = <<>> THEN {AllDone} ELSE {AllDone, AllReject} :
            ProcessBarGated(structures, blocker, script)

SpecGates == InitGateSpec /\ [][NextGates]_vars

\* -------------------------------------------------------- conflict resolver
MaxConflictBars == 6

\* process_bar with the conflict resolver deciding the gate chain: the bar
\* index of the check is processed_bars after its increment.
ProcessBarConflict(structures, script) ==
    LET generated == process_decision_generation(structures, Close)
        decisions == Dedup(generated)
        direction == IF decisions = <<>> THEN "none" ELSE decisions[1].type
        confidence == IF decisions = <<>> THEN 0 ELSE decisions[1].conf
        check == check_signal_conflict(sig.history, direction, pl.processed_bars + 1)
    IN  /\ pl.processed_bars < MaxConflictBars
        /\ ProcessBarWith(now + 1, default_equity, default_equity, generated,
                          IF ConflictBlocks(check.threshold_bump, confidence)
                          THEN "trade_blocked_by_conflict_resolver" ELSE "none",
                          Quote(0), script)
        /\ sig' = IF "execution_sized" \in bar'.events
                  THEN [history |-> check.history, checked |-> TRUE,
                        direction |-> direction, confidence |-> confidence,
                        index |-> pl.processed_bars + 1, before |-> sig.history,
                        buy_count |-> check.buy_count,
                        sell_count |-> check.sell_count,
                        threshold_bump |-> check.threshold_bump]
                  ELSE [sig EXCEPT !.checked = FALSE]
        /\ UNCHANGED <<px, gen, det, runs, onb>>
        /\ UNCHANGED <<disk, ses, gt, htf, snd, win>>

NextConflict ==
    \E structures \in {<<>>, <<StructA>>, <<StructB>>, <<StructD>>} :
        \E script \in IF structures = <<>> THEN {AllDone} ELSE {AllDone, AllReject} :
            ProcessBarConflict(structures, script)

SpecConflict == Init /\ [][NextConflict]_vars

\* ------------------------------------------------------------------ HTF bias
MaxBiasBars == 2

\* Higher-timeframe inputs: ATR in points and close minus EMA in points, in
\* the neutral zone, outside it, and beyond the clear-trend threshold.
HtfAtrs == {100}
HtfOffsets == {-180, -60, 0, 60, 180}
StructureTypes == {"engulfing", "order_block", "rejection", "unknown"}
StructF == [StructB EXCEPT !.id = 6, !.quality = 90]

\* process_bar with the HTF bias deciding the gate chain; structure_type is
\* the metadata of the sized decision.
ProcessBarHtf(structures, structure_type, offset, atr, script) ==
    LET generated == process_decision_generation(structures, Close)
        decisions == Dedup(generated)
        direction == IF decisions = <<>> THEN "none" ELSE decisions[1].type
        original_score == IF decisions = <<>> THEN 0 ELSE decisions[1].conf
        applied == apply_htf_bias(htf.hard_block, offset, atr, direction,
                                  original_score, structure_type)
    IN  /\ pl.processed_bars < MaxBiasBars
        /\ ProcessBarWith(now + 1, default_equity, default_equity, generated,
                          IF applied.should_block
                          THEN "trade_blocked_by_htf_bias" ELSE "none",
                          Quote(0), script)
        /\ htf' = IF "execution_sized" \in bar'.events
                  THEN [hard_block |-> htf.hard_block, called |-> TRUE,
                        offset |-> offset, atr |-> atr, direction |-> direction,
                        original_score |-> original_score,
                        structure_type |-> structure_type, result |-> applied]
                  ELSE [htf EXCEPT !.called = FALSE]
        /\ UNCHANGED <<px, gen, det, runs, onb>>
        /\ UNCHANGED <<disk, ses, gt, sig, snd, win>>

InitBiasSpec ==
    /\ now = 0
    /\ cfg = DefaultRiskCfg
    /\ pl = InitPipeline
    /\ jr = InitJournal
    /\ bk = InitBroker
    /\ bar = EmptyBar
    /\ hist = InitHist
    /\ px = NoCall
    /\ gen = NoGen
    /\ det = InitDetectors
    /\ runs = InitRuns
    /\ onb = InitOnboarding(DefaultOnboarding)
    /\ disk = InitDisk
    /\ ses = InitSessions
    /\ gt = InitGates
    /\ sig = InitSignals
    /\ snd = NoSend
    /\ win = InitBuffer
    /\ \E hard_block \in {"always", "conditional", "never"} :
           htf = BiasWith(hard_block)

NextBias ==
    \E structures \in {<<>>, <<StructA>>, <<StructB>>, <<StructF>>},
       structure_type \in StructureTypes, offset \in HtfOffsets, atr \in HtfAtrs :
        \E script \in IF structures = <<>> THEN {AllDone} ELSE {AllDone, AllReject} :
            ProcessBarHtf(structures, structure_type, offset, atr, script)

SpecBias == InitBiasSpec /\ [][NextBias]_vars

\* ------------------------------------------------------- configured executor
MaxSendCalls == 1
MaxRequotes == 2

\* Orders handed to _send_order_mt5: a validated BUY decision at the minimum
\* volume and at 0.50 lots.
SendOrders ==
    {[LegacyDecision(StructA, Close)[1] EXCEPT !.volume = v] : v \in {volume_min, 50}}

\* Broker answers to the order_send calls of one _send_order_mt5 call; the
\* answers after DONE or REJECT in the loop are never read and fixed to DONE.
SendAnswers ==
    [loop : {a \in [1..(MaxRequotes + 2) -> Retcodes] :
                \A i, j \in 1..(MaxRequotes + 2) :
                    (i < j /\ EndsLoop(a[i])) => a[j] = TRADE_RETCODE_DONE},
     naked : {TRADE_RETCODE_DONE, TRADE_RETCODE_INVALID_STOPS},
     modify : {TRADE_RETCODE_DONE, TRADE_RETCODE_INVALID_STOPS},
     close : {TRADE_RETCODE_DONE, TRADE_RETCODE_REQUOTE}]

\* Positions of the symbol open before the call: none, one opened by hand
\* in the other direction, or one of this pipeline with the type and volume
\* of the order being sent.
PositionsBefore(existing, req) ==
    IF existing = "manual"
    THEN <<[ticket |-> "old", type |-> IF req.type = "BUY" THEN "SELL" ELSE "BUY",
            ours |-> FALSE, volume |-> req.volume, stops |-> "own"]>>
    ELSE IF existing = "twin"
    THEN <<[ticket |-> "old", type |-> req.type, ours |-> TRUE,
            volume |-> req.volume, stops |-> "own"]>>
    ELSE <<>>

\* One _send_order_mt5 call for a validated order.  lookup: whether
\* positions_get returns the positions or nothing.
SendOrder(o, answers, existing, lookup) ==
    LET info == Quote(0)
        adj == AdjustBeforeSend(o, info)
        sent == SendAttempts(snd.cfg, adj.request, adj.request.volume, info,
                             answers.loop, 1, 0)
        before == PositionsBefore(existing, sent.request)
        listed == IF lookup THEN before \o <<OpenedPosition(sent.request)>> ELSE <<>>
    IN  /\ snd.calls < MaxSendCalls
        /\ validate_order(o, info) = "ok"
        /\ snd' = [cfg |-> snd.cfg, calls |-> snd.calls + 1, first |-> adj.request,
                   result |-> send_order_live(snd.cfg, o, info, info, answers,
                                              before, listed)]
        /\ UNCHANGED <<now, cfg, pl, jr, bk, bar, hist, px, gen, det, runs, onb>>
        /\ UNCHANGED <<disk, ses, gt, sig, htf, win>>

InitSendSpec ==
    /\ now = 0
    /\ cfg = DefaultRiskCfg
    /\ pl = InitPipeline
    /\ jr = InitJournal
    /\ bk = InitBroker
    /\ bar = EmptyBar
    /\ hist = InitHist
    /\ px = NoCall
    /\ gen = NoGen
    /\ det = InitDetectors
    /\ runs = InitRuns
    /\ onb = InitOnboarding(DefaultOnboarding)
    /\ disk = InitDisk
    /\ ses = InitSessions
    /\ gt = InitGates
    /\ sig = InitSignals
    /\ htf = NoBias
    /\ win = InitBuffer
    /\ \E requotes \in 1..MaxRequotes, naked \in BOOLEAN, close \in BOOLEAN :
           snd = SenderWith(ExecutorConfig(requotes, TRUE, naked, close))

NextSend ==
    \E o \in SendOrders, answers \in SendAnswers,
       existing \in {"none", "manual", "twin"}, lookup \in BOOLEAN :
        SendOrder(o, answers, existing, lookup)

SpecSend == InitSendSpec /\ [][NextSend]_vars

\* ----------------------------------------------------------------- bar buffer
MaxBufferBars == 6

\* deque.append on a buffer with maxlen: the oldest bar drops out when full.
AppendBar(bars, maxlen, new) ==
    IF maxlen # None /\ Len(bars) >= maxlen
    THEN Append(Tail(bars), new) ELSE Append(bars, new)

\* One iteration of the bar loop: the new bar joins the buffer and the
\* detector runs on the whole buffer.
FeedBuffer(move) ==
    LET prev == win.bars[Len(win.bars)]
        new == [open |-> prev.close, close |-> prev.close + move,
                high |-> Max(prev.close, prev.close + move) + 2,
                low |-> Min(prev.close, prev.close + move) - 2]
        bars == AppendBar(win.bars, win.maxlen, new)
        ob == OrderBlockDetect(win.last_detection_index, bars)
        fresh == OrderBlockDetect(InitDetectors.ob_last_detection_index, bars)
    IN  /\ win.fed < MaxBufferBars
        /\ win' = [maxlen |-> win.maxlen, bars |-> bars,
                   last_detection_index |-> ob.last,
                   fed |-> win.fed + 1,
                   arrived |-> IF win.since = None THEN None ELSE win.since + 1,
                   since |-> IF ob.out # {} THEN 0
                             ELSE IF win.since = None THEN None ELSE win.since + 1,
                   qualifies |-> fresh.out # {},
                   emitted |-> ob.out # {}]
        /\ UNCHANGED <<now, cfg, pl, jr, bk, bar, hist, px, gen, det, runs, onb>>
        /\ UNCHANGED <<disk, ses, gt, sig, htf, snd>>

InitBufferSpec ==
    /\ now = 0
    /\ cfg = DefaultRiskCfg
    /\ pl = InitPipeline
    /\ jr = InitJournal
    /\ bk = InitBroker
    /\ bar = EmptyBar
    /\ hist = InitHist
    /\ px = NoCall
    /\ gen = NoGen
    /\ det = InitDetectors
    /\ runs = InitRuns
    /\ onb = InitOnboarding(DefaultOnboarding)
    /\ disk = InitDisk
    /\ ses = InitSessions
    /\ gt = InitGates
    /\ sig = InitSignals
    /\ htf = NoBias
    /\ snd = NoSend
    /\ \E maxlen \in {None, atr_window + 2} : win = BufferWith(maxlen)

NextBuffer == \E move \in {-30, 0, 30} : FeedBuffer(move)

SpecBuffer == InitBufferSpec /\ [][NextBuffer]_vars

\* ---------------------------------------------------------------- sessions
\* Session windows in bars of the UTC day, start and end inclusive: a
\* configuration with two overlapping windows and a gap after them.
SessionWindows == <<[name |-> "ASIA", start |-> 1, end |-> 2],
                    [name |-> "LONDON", start |-> 2, end |-> 3]>>

\* get_active_session: the first window that encloses the time of day.
get_active_session(t) ==
    LET tod == t % BarsPerDay
        inside == {i \in 1..Len(SessionWindows) :
                      SessionWindows[i].start <= tod /\ tod <= SessionWindows[i].end}
    IN  IF inside = {} THEN "none"
        ELSE SessionWindows[CHOOSE i \in inside : \A j \in inside : i <= j].name

\* update_and_rotate: (prev, cur) with the counters reset when the session
\* changed, else (prev, None); "none" stands for None.
update_and_rotate(m, t) ==
    LET cur == get_active_session(t)
    IN  IF cur # m.current_session
        THEN [mgr |-> [m EXCEPT !.current_session = cur, !.full_sl_hits = 0],
              prev |-> m.current_session, new |-> cur, reset |-> TRUE]
        ELSE [mgr |-> m, prev |-> m.current_session, new |-> "none",
              reset |-> FALSE]

\* Session rotation of process_bar: session_rotated and the close-out are
\* guarded by new_sess is not None, the close-out also by prev_sess.
RotateSession(m, t) ==
    LET r == update_and_rotate(m, t)
    IN  [r.mgr EXCEPT
           !.prev = r.prev,
           !.rotated = r.new # "none",
           !.counters_reset = r.reset,
           !.close_requested = /\ r.new # "none"
                               /\ r.prev # "none"
                               /\ m.close_positions_on_session_end]

\* The volatility trigger of process_bar asks for a pause until
\* timestamp + min_pause_seconds.
PauseCalledFor(m, t, volatile) ==
    IF m.volatility_pause_enable /\ volatile THEN t + min_pause_bars
    ELSE m.pause_called_until

\* The session part of one process_bar call on a constructed SessionManager.
\* SessionManager defines none of get_max_full_sl_hits, clear_pause_if_elapsed,
\* is_paused, pause_until and volatility_pause_cfg: the circuit breaker line
\* raises AttributeError, which ends the first try block with
\* pipeline_processing_error after the bar was counted; the pause lines are
\* never reached and _paused_until_ts stays None.
SessionBar(m, t, tradable, volatile) ==
    [RotateSession(m, t) EXCEPT
       !.calls = @ + 1,
       !.event = IF tradable THEN "pipeline_processing_error"
                 ELSE "market_closed_skip",
       !.hits_seen = IF get_active_session(t) # m.current_session THEN 0
                     ELSE m.full_sl_hits,
       !.pause_called_until = IF tradable THEN PauseCalledFor(m, t, volatile)
                              ELSE @]

\* session_mgr is None: update_and_rotate raises AttributeError before the
\* daily reset and before the bar is counted.
NoSessionBar(m) ==
    [m EXCEPT !.calls = @ + 1, !.event = "pipeline_processing_error",
              !.rotated = FALSE, !.counters_reset = FALSE,
              !.close_requested = FALSE]

\* process_bar ending in state s = [pl, jr, bk, bar] with no stop event.
ProcessBarTo(t, s) ==
    /\ t > now
    /\ Date(t) <= MaxDay
    /\ now' = t
    /\ pl' = s.pl
    /\ jr' = s.jr
    /\ bk' = s.bk
    /\ bar' = s.bar
    /\ hist' = Remember(hist, "none", t, ClosedEvents(jr, bk, t),
                        OutcomeEvents(jr, bk, t),
                        s.jr.entry_cache \ track_position_closes(jr, bk, t).entry_cache)
    /\ UNCHANGED cfg

\* market_closed_skip: the call returns after the daily reset, before the bar
\* is counted.
SkippedBarState(t, reset_equity) ==
    [pl |-> DailyReset(pl, t, reset_equity),
     jr |-> track_position_closes(jr, bk, t),
     bk |-> bk,
     bar |-> [EmptyBar EXCEPT
                !.events = {"market_closed_skip"},
                !.reset_equity = IF NeedsReset(pl, t) THEN reset_equity ELSE None,
                !.failures_before = pl.consecutive_send_failures,
                !.executed_risk_before = SumRisk(bk.positions)]]

\* session_mgr is None: the first try block ends at the rotation; the second
\* one generates the decisions, runs the equity guards and ends with another
\* AttributeError at the first log line that names the session
\* (execution_sized or a rejection), before any gate and any order.
NoSessionBarState(t, equity, generated) ==
    [pl |-> IF Dedup(generated) = <<>> \/ pl.dd_soft_triggered THEN pl
            ELSE Guards(pl, equity).pl,
     jr |-> track_position_closes(jr, bk, t),
     bk |-> bk,
     bar |-> [EmptyBar EXCEPT
                !.events = {"pipeline_processing_error"},
                !.generated = Len(generated),
                !.equity = IF Dedup(generated) = <<>> THEN None ELSE equity,
                !.failures_before = pl.consecutive_send_failures,
                !.executed_risk_before = SumRisk(bk.positions)]]

MaxSessionBars == 5

\* process_bar with the session manager in the picture.
\*   tradable : is_market_open() and is_symbol_tradable(data.symbol)
\*   volatile : the spread or ATR test of the volatility trigger holds
ProcessBarSession(t, structures, tradable, volatile, script) ==
    /\ ses.calls < MaxSessionBars
    /\ \E generated \in {process_decision_generation(structures, Close)} :
         IF ~ses.loaded
         THEN /\ \E s \in {NoSessionBarState(t, default_equity, generated)} :
                    ProcessBarTo(t, s)
              /\ ses' = NoSessionBar(ses)
         ELSE IF ~tradable
         THEN /\ \E s \in {SkippedBarState(t, default_equity)} : ProcessBarTo(t, s)
              /\ ses' = SessionBar(ses, t, FALSE, volatile)
         ELSE /\ ProcessBarWith(t, default_equity, default_equity, generated,
                                "none", Quote(0), script)
              /\ ses' = SessionBar(ses, t, TRUE, volatile)
    /\ UNCHANGED <<px, gen, det, runs, onb>>
    /\ UNCHANGED <<disk, gt>>
    /\ UNCHANGED more

SessionConfigs ==
    {SessionsWith(loaded, close_on_end, max_hits, pause_enable) :
        loaded \in BOOLEAN, close_on_end \in BOOLEAN,
        max_hits \in {0, default_max_full_sl_hits}, pause_enable \in BOOLEAN}

InitSessionSpec ==
    /\ now = 0
    /\ cfg = DefaultRiskCfg
    /\ pl = InitPipeline
    /\ jr = InitJournal
    /\ bk = InitBroker
    /\ bar = EmptyBar
    /\ hist = InitHist
    /\ px = NoCall
    /\ gen = NoGen
    /\ det = InitDetectors
    /\ runs = InitRuns
    /\ onb = InitOnboarding(DefaultOnboarding)
    /\ disk = InitDisk
    /\ gt = InitGates
    /\ \E c \in SessionConfigs : ses = c
    /\ InitMore

NextSession ==
    \E structures \in {<<>>, <<StructA>>}, tradable \in BOOLEAN, volatile \in BOOLEAN :
        \E script \in IF structures = <<>> THEN {AllDone} ELSE {AllDone, AllReject} :
            ProcessBarSession(now + 1, structures, tradable, volatile, script)

SpecSession == InitSessionSpec /\ [][NextSession]_vars

\* ------------------------------------------------- onboarding state file
\* _save_state writes the state file in place: open(path, "w") truncates it,
\* json.dump sends the text through the file buffer, leaving the with block
\* flushes and closes.  Each of these is one file operation; the process can
\* end, and the file can be read, between any two of them.
MaxRestarts == 1

\* record_decisions up to and including the open() of _save_state.
SaveStateOpen(trades, session_id, validation_errors) ==
    /\ ~disk.writing
    /\ onb.calls < MaxOnbCalls
    /\ onb' = [record_decisions(onb, trades > 0, trades, session_id,
                                validation_errors)
                 EXCEPT !.calls = @ + 1, !.from = get_state(onb).state,
                        !.repeated = trades > 0 /\ session_id \in onb.seen_sessions]
    /\ disk' = [disk EXCEPT !.written = "empty", !.entry = NoEntry,
                            !.seen_sessions = {}, !.writing = TRUE]
    /\ UNCHANGED <<now, cfg, pl, jr, bk, bar, hist, px, gen, det, runs>>
    /\ UNCHANGED <<ses, gt>>
    /\ UNCHANGED more

\* json.dump overruns the file buffer: the head of the text reaches the file.
SaveStateFlush ==
    /\ disk.writing
    /\ disk.written = "empty"
    /\ disk' = [disk EXCEPT !.written = "partial"]
    /\ UNCHANGED <<now, cfg, pl, jr, bk, bar, hist, px, gen, det, runs, onb>>
    /\ UNCHANGED <<ses, gt>>
    /\ UNCHANGED more

\* End of the with block: the rest is flushed and the file closed.
SaveStateClose ==
    /\ disk.writing
    /\ disk' = Saved(onb)
    /\ UNCHANGED <<now, cfg, pl, jr, bk, bar, hist, px, gen, det, runs, onb>>
    /\ UNCHANGED <<ses, gt>>
    /\ UNCHANGED more

\* The process ends at any point and is started again: __init__ reads the
\* state file with _load_json_safe, which yields {} for a file that does not
\* parse.
Restart ==
    /\ disk.restarts < MaxRestarts
    /\ onb' = [InitOnboarding(onb.cfg) EXCEPT
                 !.entry = IF disk.written = "complete" THEN disk.entry ELSE NoEntry,
                 !.seen_sessions = IF disk.written = "complete"
                                   THEN disk.seen_sessions ELSE {},
                 !.calls = onb.calls]
    /\ disk' = [disk EXCEPT !.writing = FALSE, !.restarts = @ + 1]
    /\ UNCHANGED <<now, cfg, pl, jr, bk, bar, hist, px, gen, det, runs>>
    /\ UNCHANGED <<ses, gt>>
    /\ UNCHANGED more

NextPersist ==
    \/ \E trades \in {0, 1}, session_id \in SessionIds, validation_errors \in {0, 1} :
           SaveStateOpen(trades, session_id, validation_errors)
    \/ SaveStateFlush
    \/ SaveStateClose
    \/ Restart

SpecPersist == InitOnboardingSpec /\ [][NextPersist]_vars

\* =================================================================== claims
\* C1: one process_bar call, i.e. one (symbol, bar), makes at most one
\* execute_order call, however many decisions were generated.
C1_AtMostOneOrderPerBar == bar.orders_sent <= 1

C1_Witness == bar.generated >= 2 /\ bar.orders_sent = 1

\* C2: on every bar of the UTC date on which daily_hard_stop_hit fired, the
\* firing bar included, nothing is sized and no order is sent.
C2_NoSizingAfterHardStop ==
    hist.hard_hit_date = Date(now) =>
        "execution_sized" \notin bar.events /\ bar.orders_sent = 0

\* A later bar of the hard-stop day with decisions and equity back at baseline.
C2_Witness ==
    /\ hist.hard_hit_date = Date(now)
    /\ "execution_skipped_soft_stop" \in bar.events
    /\ bar.equity >= pl.dd_baseline_equity

\* C3: on every bar of the UTC date on which daily_soft_stop_hit fired nothing
\* is sized and no order is sent; the first bar of a new UTC date sets the
\* baseline to the equity read at the reset and starts with the soft flag
\* cleared (the flag is set after it only by a stop firing on that bar).
C3_SoftStopHoldsUntilNextDay ==
    /\ hist.soft_hit_date = Date(now) =>
           "execution_sized" \notin bar.events /\ bar.orders_sent = 0
    /\ bar.reset_equity # None =>
           /\ pl.dd_baseline_equity = bar.reset_equity
           /\ "execution_skipped_soft_stop" \notin bar.events
           /\ pl.dd_soft_triggered => bar.events \cap StopEvents # {}

\* The first bar of the day after a soft stop trades again.
C3_Witness ==
    /\ hist.soft_hit_date # None
    /\ hist.soft_hit_date < Date(now)
    /\ bar.reset_equity # None
    /\ ~pl.dd_soft_triggered
    /\ bar.orders_sent = 1

\* C4: once ftmo_daily_limit_hit or ftmo_total_limit_hit has fired, no later
\* bar of the run sends an order.
C4_NoOrderAfterFtmoLimit == hist.ftmo_hit => bar.orders_sent = 0

\* C5: the send-failure counter grows over a bar only when an order was
\* submitted to the broker and the last answer was not DONE; a pre-check
\* block or a send that succeeded after an invalid-stops retry never
\* increments it.
C5_FailuresCountBrokerRejectionsOnly ==
    /\ pl.consecutive_send_failures > bar.failures_before =>
           bar.submits >= 1 /\ bar.result.retcode # TRADE_RETCODE_DONE
    /\ (bar.result.precheck_block \/ bar.result.success) =>
           pl.consecutive_send_failures <= bar.failures_before

\* C6: a bar that starts with the counter at or above
\* max_consecutive_send_failures sends no order.
C6_NoOrderWhileSaturated ==
    bar.failures_before >= max_consecutive_send_failures => bar.orders_sent = 0

C6_Witness ==
    /\ bar.failures_before >= max_consecutive_send_failures
    /\ "order_send_failure_pause" \in bar.events

\* C7: a bar is paused for send failures only while no more than
\* failure_cooldown_seconds have elapsed since the last failure; after that
\* the counter is reset and the bar can execute.
C7_PauseEndsAfterCooldown ==
    "order_send_failure_pause" \in bar.events =>
        (now - pl.last_failure_time) * SecondsPerBar <= failure_cooldown_seconds

\* C8: the risk of the orders executed so far on the symbol stays within
\* equity * per_symbol_open_risk_cap_pct, and a decision whose risk on top of
\* the risk of the earlier executed orders exceeds that budget is rejected
\* with risk_cap_hit.
C8_OpenRiskWithinCap ==
    /\ bar.result.success => SumRisk(bk.positions) <= bar.equity * cfg.cap_pct
    /\ (bar.sized.outcome # "none"
        /\ bar.executed_risk_before + bar.sized.new_trade_risk
             > bar.equity * cfg.cap_pct)
           => "risk_cap_hit" \in bar.events

EventsOf(log, ticket) == {e \in log : e.ticket = ticket}

C10_OneOutcomePerClosedTicket ==
    \A ticket \in hist.ever_cached :
        Cardinality(EventsOf(hist.trade_outcome_recorded, ticket)) =
            IF EventsOf(hist.position_closed, ticket) = {} THEN 0 ELSE 1

\* A cached ticket whose close was logged by two reconciliations.
C10_Witness ==
    \E ticket \in hist.ever_cached :
        /\ Cardinality(EventsOf(hist.position_closed, ticket)) >= 2
        /\ Cardinality(EventsOf(hist.trade_outcome_recorded, ticket)) = 1


\* C11: a plan returned by StructureExitPlanner.plan has
\* expected_rr >= min_rr_gate, expected_rr being reward / risk of the SL and
\* TP the plan carries.
C11_PlanMeetsGate ==
    (px.called /\ px.result.ok) =>
        /\ px.result.risk = RiskOf(px.side, px.entry, px.result.sl)
        /\ px.result.reward = RewardOf(px.side, px.entry, px.result.tp)
        /\ px.result.risk > 0
        /\ px.result.reward * min_rr_gate_den >= px.result.risk * min_rr_gate_num

\* A structure plan that met the gate only through the TP extension.
C11_Witness ==
    /\ px.called
    /\ px.result.ok
    /\ px.result.method = "order_block"
    /\ px.result.reward * min_rr_gate_den = px.result.risk * min_rr_gate_num

\* Method m of the priority list satisfies the RR gate after clamping, for
\* the arguments of the call held in px.
SatisfiesGate(m) ==
    LET planned == plan_from_method(m, px.side, px.entry, px.atr, px.structures,
                                    px.broker)
    IN  /\ planned.ok
        /\ apply_rr_gate_and_return(planned, px.side, px.entry, px.broker,
                                    px.pcfg).ok

\* C12: plan returns null only when no method of the configured priority
\* list satisfies the RR gate after clamping and TP extension.
C12_NullOnlyWhenNoMethodPasses ==
    (px.called /\ ~px.result.ok) =>
        \A i \in 1..Len(px.pcfg.exit_priority) :
            ~SatisfiesGate(px.pcfg.exit_priority[i])

\* The planner was consulted for the structures of the last bar.
PlannerConsulted == gen.planner.enabled /\ gen.atr # None /\ gen.structures # <<>>

PlannerNullFor(i) ==
    ~PlanFor(gen.structures[i], gen.structures, Close, gen.atr, gen.planner).ok

RewardRiskAtLeastGate(o) ==
    LET risk == IF o.type = "BUY" THEN o.entry - o.sl ELSE o.sl - o.entry
        reward == IF o.type = "BUY" THEN o.tp - o.entry ELSE o.entry - o.tp
    IN  risk > 0 /\ reward * min_rr_gate_den >= risk * min_rr_gate_num

\* C13: when the planner returns null for a structure, no Decision is emitted
\* for that structure; when it returns null for every structure of the bar,
\* the bar has no decision and sends no order.
C13_NoDecisionWhenPlannerNull ==
    PlannerConsulted =>
        /\ \A i \in 1..Len(gen.structures) :
               PlannerNullFor(i) =>
                   \A k \in 1..Len(gen.decisions) :
                       gen.decisions[k].sid # gen.structures[i].id
        /\ (\A i \in 1..Len(gen.structures) : PlannerNullFor(i)) =>
               (gen.decisions = <<>> /\ bar.generated = 0 /\ ~gen.submitted)

\* C14: every Decision emitted by process_bar has sl < entry < tp when it is
\* a BUY and tp < entry < sl when it is a SELL.
C14_DecisionSides ==
    \A k \in 1..Len(gen.decisions) :
        LET d == gen.decisions[k]
        IN  /\ d.type = "BUY" => (d.sl < d.entry /\ d.entry < d.tp)
            /\ d.type = "SELL" => (d.tp < d.entry /\ d.entry < d.sl)

\* A decision whose legacy stop was on the wrong side and was clamped.
C14_Witness ==
    \E k \in 1..Len(gen.decisions) :
        /\ gen.decisions[k].sid = StructD.id
        /\ gen.decisions[k].exit_method = "legacy"
        /\ gen.decisions[k].sl = Close - 2
        /\ bar.generated = Len(gen.decisions)

\* C15: a Decision whose exits came from the planner has reward/risk at least
\* min_rr_gate, and the order submitted for it, after every SL/TP shift on the
\* way to the broker, still has reward/risk at least min_rr_gate.
C15_GateKeptToBroker ==
    /\ \A k \in 1..Len(gen.decisions) :
           gen.decisions[k].exit_method # "legacy" =>
               RewardRiskAtLeastGate(gen.decisions[k])
    /\ (gen.submitted /\ Head(Dedup(gen.decisions)).exit_method # "legacy") =>
           RewardRiskAtLeastGate(gen.request)

DebounceOf(detector) ==
    IF detector = "order_block" THEN ob_debounce_bars ELSE bos_debounce_bars

\* C16: the origin indices of any two same-direction structures emitted by
\* one detector, on a window fed bar by bar, differ by at least that
\* detector's debounce_bars.
C16_DebounceSpacing ==
    \A a, b \in det.emitted :
        (a # b /\ a.detector = b.detector /\ a.direction = b.direction) =>
            Abs(a.origin_index - b.origin_index) >= DebounceOf(a.detector)

\* What a run of process_bar shows for a bar: decisions generated, orders
\* requested and submitted, execution result, block events.
Observable(b) ==
    [generated |-> b.generated, orders_sent |-> b.orders_sent,
     submits |-> b.submits, result |-> b.result, events |-> b.events]

\* C17: two runs of the pipeline over the same bars, configuration and broker
\* snapshots show the same decisions, executor requests and block events,
\* whatever the wall-clock times of the runs.
C17_RunsAgree == Observable(runs.a.bar) = Observable(runs.b.bar)

ThresholdsMet(st) ==
    /\ st.sessions_seen >= st.probation_min_sessions
    /\ st.trades_seen >= st.probation_min_trades
    /\ st.validation_errors <= st.max_validation_errors

\* C19: after a record_decisions call on a symbol in observe_only, the symbol
\* is promoted exactly when sessions_seen >= probation_min_sessions,
\* trades_seen >= probation_min_trades and validation_errors <=
\* max_validation_errors; otherwise it is still observe_only.
C19_PromotionExactlyAtThresholds ==
    onb.from = "observe_only" =>
        /\ get_state(onb).state = "promoted" <=> ThresholdsMet(get_state(onb))
        /\ ~ThresholdsMet(get_state(onb)) => get_state(onb).state = "observe_only"

\* Promoted by the call that brought the counters to non-trivial thresholds,
\* with validation errors at the allowed maximum.
C19_Witness ==
    /\ onb.from = "observe_only"
    /\ get_state(onb).state = "promoted"
    /\ get_state(onb).probation_min_trades = 2
    /\ get_state(onb).trades_seen = 2
    /\ get_state(onb).validation_errors = 1

\* C20: no automatic demotion: a promoted symbol is still promoted after
\* every later step, whatever validation errors record_decisions is given.
C20_NoDemotion ==
    [][get_state(onb).state = "promoted" => get_state(onb').state = "promoted"]_vars

\* A promoted symbol on which record_decisions has run, with more validation
\* errors than max_validation_errors.
C20_Witness ==
    /\ onb.from = "promoted"
    /\ onb.cfg.initial_state = "observe_only"
    /\ get_state(onb).state = "promoted"
    /\ get_state(onb).validation_errors > get_state(onb).max_validation_errors

\* C27: on the first bar after the UTC date advances the baseline equity and
\* the FTMO daily low are the equity read at the reset and the soft-stop,
\* hard-stop and FTMO daily flags are cleared, so that a drawdown at or below
\* the daily hard stop against the new baseline fires daily_hard_stop_hit again.
C27_DailyResetClearsDay ==
    bar.reset_equity # None =>
        /\ bar.generated = 0 =>
              /\ pl.dd_baseline_equity = bar.reset_equity
              /\ pl.ftmo_daily_equity_low = bar.reset_equity
              /\ ~pl.dd_soft_triggered
              /\ ~pl.dd_hard_triggered
              /\ ~pl.ftmo_daily_stop_triggered
        /\ (/\ bar.equity # None
            /\ DrawdownAtOrBelow(bar.equity, bar.reset_equity, daily_hard_stop_pct))
              => "daily_hard_stop_hit" \in bar.events


\* The plan that goes to the RR gate for the call held in px: what the first
\* method of the priority list that plans something returns after the broker
\* clamps.
ClampedPlan ==
    LET planning == {i \in 1..Len(px.pcfg.exit_priority) :
                        plan_from_method(px.pcfg.exit_priority[i], px.side, px.entry,
                                         px.atr, px.structures, px.broker).ok}
        first == CHOOSE i \in planning : \A j \in planning : i <= j
    IN  IF planning = {} THEN NoPlan
        ELSE plan_from_method(px.pcfg.exit_priority[first], px.side, px.entry,
                              px.atr, px.structures, px.broker)

\* The broker's minimum stop distance set a distance of the clamped plan and
\* the clamped plan's reward/risk is below min_rr_gate.
ClampsLeaveBelowGate ==
    LET risk == RiskOf(px.side, px.entry, ClampedPlan.sl)
        reward == RewardOf(px.side, px.entry, ClampedPlan.tp)
    IN  /\ ClampedPlan.ok
        /\ px.broker.min_stop > 0
        /\ risk = px.broker.min_stop \/ reward = px.broker.min_stop
        /\ risk > 0
        /\ reward > 0
        /\ ~meets_rr_gate(reward, risk)

\* C24: when the broker clamps (a minimum stop distance large relative to the
\* ATR) leave the plan's reward/risk below min_rr_gate, plan returns None.
C24_NoneWhenClampsBreakGate ==
    (px.called /\ ClampsLeaveBelowGate) => ~px.result.ok


\* C25: every plan returned by plan keeps both stops at least
\* min_stop_distance away from the entry, TP-extended plans included.
C25_StopsAtLeastMinDistance ==
    (px.called /\ px.result.ok) =>
        /\ Abs(px.entry - px.result.sl) >= px.broker.min_stop
        /\ Abs(px.entry - px.result.tp) >= px.broker.min_stop


\* C23: the onboarding state file is replaced by an atomic swap: whenever it
\* exists it holds one complete serialized state, never an empty or partly
\* written text.
C23_StateFileNeverPartial == disk.written \in {"none", "complete"}


\* C22: every process_bar call advances processed_bars by exactly one, the
\* calls ended early by a guard and the calls in which an exception was raised
\* included: the counter equals the number of calls made.
C22_EveryBarCounted == pl.processed_bars = ses.calls

\* C28: a bar that reaches the circuit breaker with full_sl_hits at or above
\* max_full_sl_hits_per_session logs circuit_breaker_tripped, generates no
\* decision and sends no order.
C28_CircuitBreakerBlocks ==
    (/\ ses.calls > 0
     /\ ses.loaded
     /\ ses.event # "market_closed_skip"
     /\ ses.hits_seen >= ses.max_full_sl_hits_per_session)
        => /\ ses.event = "circuit_breaker_tripped"
           /\ bar.generated = 0
           /\ bar.orders_sent = 0

\* C29: after the volatility trigger of an earlier bar set the pause to end at
\* paused_until = timestamp + min_pause_seconds, a bar with a timestamp before
\* paused_until produces no decisions.
C29_NoDecisionsWhilePaused ==
    (/\ ses.pause_called_until # None
     /\ ses.pause_called_until - min_pause_bars < now
     /\ now < ses.pause_called_until)
        => bar.generated = 0

\* C30: whenever the session of a bar differs from the session of the bar
\* before it, into and out of "no session" included, session_rotated is
\* logged and the session counters are reset, and when
\* close_positions_on_session_end is enabled and a session ended, the close
\* request is issued.
C30_RotationOnEverySessionChange ==
    (ses.calls > 0 /\ ses.loaded /\ ses.prev # ses.current_session)
        => /\ ses.rotated
           /\ ses.counters_reset
           /\ (ses.close_positions_on_session_end /\ ses.prev # "none")
                 => ses.close_requested


\* The positions open before the last bar reached a limit for the direction
\* of its decision.
LimitReached ==
    \/ gt.total >= gt.max_positions_per_symbol
    \/ gt.same >= gt.max_positions_per_direction

C26_OrderOnlyPastAllGates ==
    /\ bar.orders_sent > 0 =>
          /\ gt.evaluated = GateChainOrder
          /\ gt.blocked = "none"
          /\ gt.blocker = "none"
          /\ ~LimitReached
    /\ ("execution_sized" \in bar.events /\ (gt.blocker # "none" \/ LimitReached)) =>
          /\ bar.orders_sent = 0
          /\ gt.blocked \in bar.events

\* An order sent with a position already open, after all six gates passed.
C26_Witness ==
    /\ bar.orders_sent = 1
    /\ bar.result.success
    /\ gt.total > 0
    /\ gt.evaluated = GateChainOrder


\* C39: after every bar 0 <= consecutive_send_failures <=
\* max_consecutive_send_failures; over one bar the counter grows by at most
\* one and only when execute_order was called, and a successful execution
\* leaves it at zero.
C39_FailureCounterBounded ==
    /\ 0 <= pl.consecutive_send_failures
    /\ pl.consecutive_send_failures <= max_consecutive_send_failures
    /\ pl.consecutive_send_failures <= bar.failures_before + 1
    /\ pl.consecutive_send_failures > bar.failures_before => bar.orders_sent >= 1
    /\ bar.result.success => pl.consecutive_send_failures = 0

\* A successful execution on a bar that started with failures counted.
C39_Witness ==
    /\ bar.failures_before = max_consecutive_send_failures - 1
    /\ bar.result.success
    /\ pl.consecutive_send_failures = 0


\* C40: a ticket in the recorded set is not in the entry cache, and it is in
\* the recorded set only if its outcome was appended to the journal file.
C40_RecordedMeansWritten ==
    /\ jr.recorded_tickets \cap jr.entry_cache = {}
    /\ jr.recorded_tickets \subseteq jr.journal_file


\* C37: sessions_seen of the symbol equals the number of distinct session ids
\* in its seen_sessions list: record_decisions adds one only for a session
\* not observed before.
C37_SessionsSeenCountsDistinct ==
    get_state(onb).sessions_seen = Cardinality(onb.seen_sessions)

\* The last record_decisions call got decisions of a session already seen.
C37_Witness ==
    /\ onb.repeated
    /\ onb.entry.sessions_seen = 1
    /\ onb.entry.trades_seen >= 2


\* An earlier signal of the other direction within lookback_bars of the bar
\* of the last check.
OpposingInWindow ==
    \E i \in 1..Len(sig.before) :
        /\ sig.before[i].direction # sig.direction
        /\ sig.index - sig.before[i].idx <= conflict_lookback_bars

HardBlockActive ==
    \/ htf.hard_block = "always"
    \/ htf.hard_block = "conditional" /\ ClearTrend(htf.offset, htf.atr)

\* C36: under an active hard block a counter-trend decision passes the HTF
\* gate only with original_confidence >= override_threshold, an elite
\* structure type and a market not in the clear-trend zone; a rejection
\* structure never passes by the elite override.
C36_EliteOverrideOnly ==
    (htf.called /\ htf.result.alignment = "counter") =>
        /\ (HardBlockActive /\ "trade_blocked_by_htf_bias" \notin bar.events)
              => /\ htf.original_score >= htf_override_score
                 /\ htf.structure_type \in elite_eligible_structures
                 /\ ~ClearTrend(htf.offset, htf.atr)
        /\ htf.structure_type = "rejection" => ~htf.result.elite_override



\* C31 as stated: one call submits the entry order at most max_requotes + 1
\* times.
C31_AtMostRequotesPlusOne ==
    snd.result.entry_sends <= snd.cfg.max_requotes + 1

\* C31: the send loop submits the order at most max_requotes + 1 times and
\* ends for every sequence of retcodes; the naked-entry fallback, when
\* enabled and the loop ended on 10016, submits it once more without SL/TP.
C31_LoopBoundedPlusFallback ==
    snd.calls > 0 =>
        /\ snd.result.submits <= snd.cfg.max_requotes + 1
        /\ snd.result.entry_sends <=
              snd.result.submits
                + (IF /\ snd.cfg.enable_naked_entry_fallback_on_10016
                      /\ snd.result.retcode = TRADE_RETCODE_INVALID_STOPS
                   THEN 1 ELSE 0)

\* Every loop attempt answered 10016, then the naked order filled.
C31_Witness ==
    /\ snd.calls > 0
    /\ snd.result.submits = snd.cfg.max_requotes + 1
    /\ snd.result.naked = "done"
    /\ snd.result.entry_sends = snd.cfg.max_requotes + 2

SlDistance(req) == Abs(req.sl - req.entry)

\* C32: after any number of adaptive retries volume x SL distance of the
\* request exceeds that of the order first submitted by at most one volume
\* step (one unit of volume) x SL distance.
C32_RiskPreservedByRetries ==
    snd.result.retries >= 1 =>
        snd.result.request.volume * SlDistance(snd.result.request)
            <= snd.first.volume * SlDistance(snd.first)
                 + SlDistance(snd.result.request)

\* C33: after a naked entry that filled, a modify request is sent for the
\* position that entry opened, carrying the SL and TP of the stripped request.
C33_ModifyTargetsOpenedPosition ==
    snd.result.naked = "done" =>
        /\ snd.result.modify.sent
        /\ snd.result.modify.position = "new"
        /\ snd.result.modify.sl = snd.result.request.sl
        /\ snd.result.modify.tp = snd.result.request.tp

\* C34: when the modify after a naked entry failed and
\* close_on_modify_failure is enabled, the call does not report success
\* while the position the entry opened is still open without stops.
C34_NoNakedPositionLeft ==
    (/\ snd.cfg.close_on_modify_failure
     /\ snd.result.modify.sent
     /\ ~snd.result.modify.done
     /\ snd.result.success)
        => \A p \in snd.result.open : p.ticket = "new" => p.stops # "none"


\* C38: once at least debounce_bars bars have arrived since the detector
\* last fired, a qualifying pattern on the newest bar is emitted, for a
\* growing series and for a buffer of fixed length.
C38_DebounceEnds ==
    (/\ win.arrived # None
     /\ win.arrived >= ob_debounce_bars
     /\ win.qualifies)
        => win.emitted

====
